---- MODULE Spec2Model ----
(***************************************************************************)
(* Control plane of the RTMP relay.                                        *)
(*                                                                         *)
(*   DeciderSpec  the auto-switcher's monitoring loop                      *)
(*                (src/stream-auto-switcher/auto_switcher.py)              *)
(*   ServerSpec   the WebSocket fan-out server and the scene/privacy cell  *)
(*                (src/controller/container_controller.py)                 *)
(*                                                                         *)
(* The two programs are separate processes; each specification moves its   *)
(* own variables and leaves the other program's variables at their initial *)
(* values.                                                                 *)
(*                                                                         *)
(* Time is counted in ticks of 0.5 s (one POLL_SECS).                      *)
(***************************************************************************)
EXTENDS Integers, Sequences, FiniteSets, TLC

\* ------------------------------------------------------------------ bounds
\* Last monotonic instant (in ticks) at which the decider still samples.
MaxTime == 14
\* Largest extra latency (ticks) of one stat fetch / switch call.
MaxDelay == 1
\* WebSocket connections the fan-out server sees (each connects once).
NClients == 2
\* POST /scene and POST /privacy requests served.
MaxPosts == 1
\* POST /privacy requests of an operator who toggles privacy.
MaxToggles == 3
\* POST /privacy requests whose broadcasts may overlap.
MaxOverlap == 2
\* GET /switch requests the switcher serves.
MaxSwitches == 3
\* Supervisor polls that find the mode has to change.
MaxModeChanges == 2
\* FFmpeg children the supervisor tries to start.
MaxSpawns == 3
\* Lines the service's container writes to its log.
MaxLogLines == 2
\* Lifecycle changes of the service's container.
MaxRuntimeChanges == 1
\* subscribe_logs messages a client sends.
MaxSubscribes == 1
\* Runtime list calls that fail (DockerException or another exception).
MaxFaults == 1
\* POST /container/<name>/<action> requests served.
MaxRequests == 2
\* Fragments in the error text of a failed runtime command.
MaxFragments == 2
\* The largest MIN_BITRATE_KBPS a process is started with.
MaxKbps == 3
\* The largest bw_video of a sample, in bytes per second.
MaxBw == 400
\* The longest of the short durations that are formatted, in seconds.
MaxSeconds == 125

\* ======================================================================
\*  Scene decider (auto_switcher.py)
\* ======================================================================

\* ------------------------------------------------------- configuration
\* MIN_BITRATE_KBPS, kilobits per second
MIN_BITRATE_KBPS == 300
\* POLL_SECS = 0.5 s = 1 tick
POLL_SECS == 1
\* CAM_MISS_TIMEOUT = 3.0 s = 6 ticks
CAM_MISS_TIMEOUT == 6
\* CAM_BACK_STABILITY = 2.0 s = 4 ticks
CAM_BACK_STABILITY == 4
\* time.sleep(1) after the initial switch = 2 ticks
STARTUP_SLEEP == 2

\* Python's None for a timestamp
NoTime == -1

\* The values of `stats`: the local is unbound until the first successful
\* fetch; parse_stream_stats returns one of these records.
NoStream == [exists |-> FALSE, publishing |-> FALSE, bw_video |-> 0]

BwValues == {0, 37499, 37500}

Samples ==
    {NoStream} \cup
    [exists : {TRUE}, publishing : BOOLEAN, bw_video : BwValues]

Unbound == [exists |-> FALSE, publishing |-> FALSE, bw_video |-> -1]

VARIABLES
    d_pc,              \* "start" | "loop" | "crashed"
    clock,             \* monotonic time at which the loop wakes up next
    now,               \* the last value of `now` read by the loop
    active_src,        \* "none" (None) | "cam" | "offline"
    last_seen_cam,     \* monotonic time of the last healthy sample
    cam_stable_since,  \* NoTime, or when the cam became healthy
    stats,             \* Unbound, or the last parsed sample
    emitted,           \* history: every call_switch invocation
    probe,             \* history: "none" | "ok" | "fail", the last probe
    probe_seen,        \* history: the sample of the last probe (NoStream on failure)
    run_healthy,       \* history: health of the current run of samples
    run_start,         \* history: time of the first sample of that run
    run_failed,        \* history: a switch call failed during that run
    last_unhealthy,    \* history: time of the last unhealthy sample, or NoTime
    ever_healthy,      \* history: some sample so far was healthy
    ever_stream        \* history: some probe so far found the stream

dvars == <<d_pc, clock, now, active_src, last_seen_cam, cam_stable_since,
           stats, emitted, probe, probe_seen, run_healthy, run_start,
           run_failed, last_unhealthy, ever_healthy, ever_stream>>

\* ======================================================================
\*  Fan-out server (container_controller.py): state
\* ======================================================================

Clients == 1..NClients
Services == {"svc"}

VARIABLES
    loop_set,              \* WebSocketServer.loop is not None
    clients,               \* WebSocketServer.clients
    log_subscribers,       \* service -> the clients in log_subscribers[service]
    last_container_state,  \* service -> status, "absent" when not in the dict
    last_sent_logs,        \* service -> anchor line, 0 for None
    scene,                 \* ScenePrivacyManager._current_scene
    scene_ts,              \* _scene_timestamp (a counter of assignments)
    privacy,               \* _privacy_enabled
    privacy_file,          \* "missing" | "true" | "false": the persisted flag
    lock,                  \* "free" | "http" | "loop": holder of _lock
    http,                  \* the HTTP thread: [pc, ...]
    bcasts,                \* the scheduled scene/privacy broadcast coroutines
    mon,                   \* monitor_container_status and its broadcast
    tick,                  \* stream_logs and its sends
    hpc,                   \* client -> position of its handle_connection
    hreq,                  \* client -> what its handler is sending
    conn,                  \* client -> "none" | "open" | "gone" (the socket)
    runtime,               \* service -> container status at the runtime
    log,                   \* service -> the container's log lines
    nlines,                \* lines ever written to the service's log
    log_reset,             \* history: the log lost lines (container removed)
    rx,                    \* history: client -> the messages delivered to it
    posts,                 \* history: number of POST requests served
    nchanges,              \* history: number of runtime lifecycle changes
    nfaults,               \* history: number of failed runtime list calls
    nsubs,                 \* history: client -> subscribe_logs messages sent
    callback_locked,       \* history: a callback ran while _lock was held
    mon_last,              \* history: the last status broadcast that ended
    lifecycle,             \* history: the last lifecycle change at the runtime
    blocked,               \* the coroutine inside a runtime call, if any
    sending,               \* client -> broadcasts inside send() to it, in call order
    failing,               \* broadcasts whose send() found the socket closed
    answered,              \* history: the last POST /scene or /privacy: [route, arg, code]
    mux                    \* _notify_multiplexer: [pending, got], threads under way and what arrived

svars == <<loop_set, clients, log_subscribers, last_container_state,
           last_sent_logs, scene, scene_ts, privacy, privacy_file, lock, http,
           bcasts, mon, tick, hpc, hreq, conn, runtime, log, nlines,
           log_reset, rx, posts,
           nchanges, nfaults, nsubs, callback_locked, mon_last, lifecycle,
           blocked, sending, failing, answered, mux>>

\* ======================================================================
\* The A/B-select switcher (src/stream-switcher/rtmp_switcher.py) and the
\* process supervisor (src/supervisor/supervisor.py)
\* ======================================================================
VARIABLES
    sw_pc,             \* "new" | "idle" | "video" | "audio": Switcher / set_source
    which,             \* the argument of the set_source call in progress
    vsel,              \* active pad of the video selector: "none" | source
    asel,              \* active pad of the audio selector: "none" | source
    current_source,    \* Switcher.current_source, "none" for None
    cam_available,     \* sources_available["cam"]
    current_mode,      \* supervisor: "none" (None) | "live" | "offline"
    nswitch,           \* history: GET /switch requests served
    nmode,             \* history: supervisor polls that tried to switch
    switched,          \* history: switches that succeeded
    notified,          \* history: POST /scene/<name> requests issued
    frames,            \* history: what the pipeline saw when it took a buffer
    scene_replies,     \* history: what GET /scene answered
    sup_pc,            \* supervisor main(): "check" | "probe" | "term" | "pause"
    target,            \* the mode switch_to_live / switch_to_offline is going to
    switcher_process,  \* the child the supervisor holds, 0 for None
    alive,             \* the children that are running
    spawns,            \* history: every Popen call; child k is the k-th
    signals,           \* history: child -> the signals sent to it
    crashed,           \* history: a child died by itself and none was started since
    poll               \* history: how the current loop iteration of main() began

wvars == <<sw_pc, which, vsel, asel, current_source, cam_available,
           current_mode, nswitch, nmode, switched, notified, frames,
           scene_replies, sup_pc, target, switcher_process, alive, spawns,
           signals, crashed, poll>>

\* ======================================================================
\*  Service controller (container_controller.py): container operations
\* ======================================================================

\* The short names a request can carry: a service of the compose file and
\* a name the compose file does not know.
Names == {"svc", "ghost"}
Declared == {"svc"}

VARIABLES
    req,               \* do_POST: [pc, result], "called" once the operation returned
    resp,              \* the response sent for the last request, NoResp before it
    op,                \* the background thread: [pc, kind, name, err, removed, got]
    cmds,              \* history: the runtime calls of the thread, in order
    ctr,               \* name -> "absent" | "exited" | "running" at the runtime
    nreq,              \* history: number of container requests served
    early,             \* history: the thread called the runtime before the response
    listing,           \* the last list_containers call: its inputs and what it gave
    evaluated          \* the last call of a function without state: [fn, ...]

cvars == <<req, resp, op, cmds, ctr, nreq, early, listing, evaluated>>

vars == <<dvars, svars, wvars, cvars>>

\* ------------------------------------------------------- pure functions

\* check_bitrate_sufficient: (bytes * 8) / 1000 >= MIN_BITRATE_KBPS, and
\* a bandwidth of 0 is never sufficient.
bitrate_above(bw_video_bytes_per_sec, min_bitrate_kbps) ==
    IF bw_video_bytes_per_sec = 0
    THEN FALSE
    ELSE bw_video_bytes_per_sec * 8 > min_bitrate_kbps * 1000
bitrate_sufficient(bw_video_bytes_per_sec, min_bitrate_kbps) ==
    IF bw_video_bytes_per_sec = 0
    THEN FALSE
    ELSE bw_video_bytes_per_sec * 8 >= min_bitrate_kbps * 1000

\* check_bitrate_sufficient with the threshold the process was started with.
check_bitrate_sufficient(bw_video_bytes_per_sec) ==
    bitrate_sufficient(bw_video_bytes_per_sec, MIN_BITRATE_KBPS)

\* is_cam_alive_and_healthy(stats)
AlwaysHealthy(s) == TRUE
is_cam_alive_and_healthy(s) ==
    IF ~s.exists THEN FALSE
    ELSE IF ~s.publishing THEN FALSE
    ELSE check_bitrate_sufficient(s.bw_video)

\* is_cam_alive_and_healthy(stats) in a process whose MIN_BITRATE_KBPS is
\* min_bitrate_kbps (line 32 reads it from the environment).
healthy_with(s, min_bitrate_kbps) ==
    IF ~s.exists THEN FALSE
    ELSE IF ~s.publishing THEN FALSE
    ELSE bitrate_sufficient(s.bw_video, min_bitrate_kbps)

\* `active_src != "cam"`  (line 222)
AnySource(src) == TRUE
NotOnCam(src) == src # "cam"

\* `active_src == "cam"`  (line 246)
OnCam(src) == src = "cam"

\* `elapsed >= CAM_BACK_STABILITY`  (lines 232-233)
StableAtOnce(t, since) == t - since >= 0
StableByMissTimeout(t, since) == t - since > CAM_MISS_TIMEOUT
StabilityExceeded(t, since) == t - since > CAM_BACK_STABILITY
StabilityReached(t, since) == t - since >= CAM_BACK_STABILITY

\* `time_since_good >= CAM_MISS_TIMEOUT`  (lines 247-248)
MissAtOnce(t, last) == t - last >= 0
MissTimeoutExceeded(t, last) == t - last > CAM_MISS_TIMEOUT
MissTimeoutReached(t, last) == t - last >= CAM_MISS_TIMEOUT

\* call_switch: active_src is assigned only when the request succeeded.
SwitchAlwaysApplied(cur, src, ok) == src
SwitchedSource(cur, src, ok) == IF ok THEN src ELSE cur

\* The source the state machine asks for on a sample of health h taken at
\* time t, "none" when it calls nothing.
Wanted(h, t) ==
    IF h
    THEN IF NotOnCam(active_src)
            /\ cam_stable_since # NoTime
            /\ StabilityReached(t, cam_stable_since)
         THEN "cam" ELSE "none"
    ELSE IF OnCam(active_src) /\ MissTimeoutReached(t, last_seen_cam)
         THEN "offline" ELSE "none"

\* The state machine of one loop iteration (lines 215-262) as a function of
\* the sample's health h, its time t, the outcome ok of the switch request
\* (if one is made) and the value st of `stats` after the probe.
Decide(h, t, ok, st) ==
    LET w == Wanted(h, t)
        \* line 249 reads stats["exists"]: a NameError when stats is unbound
        crash == (w = "offline") /\ st = Unbound
    IN [ crash  |-> crash,
         cmd    |-> IF crash THEN "none" ELSE w,
         active |-> IF w = "none" \/ crash THEN active_src
                    ELSE SwitchedSource(active_src, w, ok),
         seen   |-> IF h THEN t ELSE last_seen_cam,
         stable |-> IF h
                    THEN IF NotOnCam(active_src)
                         THEN IF cam_stable_since = NoTime THEN t
                              ELSE IF w = "cam" THEN NoTime
                              ELSE cam_stable_since
                         ELSE cam_stable_since
                    ELSE NoTime ]

\* One call_switch(src) made at sample time t while active_src was cur.
Cmd(cur, src, ok, t) == [from |-> cur, src |-> src, ok |-> ok, at |-> t]


\* ======================================================================
\*  Fan-out server: helpers and initial state
\* ======================================================================

\* get_logs(tail=50) in stream_logs
STREAM_TAIL == 50
\* handle_log_subscription(lines=100)
SNAPSHOT_TAIL == 100

NoReq == [type |-> "none"]

\* A `for client in self.clients` loop suspended in `await client.send`.
NoIter == [cur |-> 0, visited |-> {}, snap |-> {}, disc |-> {}]

MonIdle == [pc |-> "sleep", changes |-> {}, seq |-> 0, who |-> {},
            across |-> {}, msg |-> NoReq, it |-> NoIter]

TickIdle == [pc |-> "sleep", svc |-> "svc", new_logs |-> << >>, todo |-> {},
             cur |-> 0, disc |-> {}, alias |-> FALSE]

\* No POST /scene or /privacy request was served yet.
NoAnswer == [route |-> "none", arg |-> "none", code |-> 0, changed |-> FALSE]

\* No _notify_multiplexer thread was started yet.
NoNotice == [pending |-> {}, got |-> << >>]

\* No coroutine is inside a call to the container runtime.
Unblocked == [task |-> "none", client |-> 0]

SInit ==
    /\ loop_set = FALSE
    /\ clients = {}
    /\ log_subscribers = [s \in Services |-> {}]
    /\ last_container_state = [s \in Services |-> "absent"]
    /\ last_sent_logs = [s \in Services |-> 0]
    /\ scene = "unknown"
    /\ scene_ts = 0
    /\ privacy = FALSE
    /\ privacy_file = "missing"
    /\ lock = "free"
    /\ http = "idle"
    /\ bcasts = << >>
    /\ mon = MonIdle
    /\ tick = TickIdle
    /\ hpc = [c \in Clients |-> "idle"]
    /\ hreq = [c \in Clients |-> NoReq]
    /\ conn = [c \in Clients |-> "none"]
    /\ runtime = [s \in Services |-> "running"]
    /\ log = [s \in Services |-> << >>]
    /\ nlines = 0
    /\ log_reset = FALSE
    /\ rx = [c \in Clients |-> << >>]
    /\ posts = 0
    /\ nchanges = 0
    /\ nfaults = 0
    /\ nsubs = [c \in Clients |-> 0]
    /\ callback_locked = FALSE
    /\ mon_last = [changes |-> {}, seq |-> 0, who |-> {}, across |-> {},
                   ok |-> TRUE]
    /\ lifecycle = [from |-> "running", to |-> "running", who |-> {}, n |-> 0]
    /\ blocked = Unblocked
    /\ sending = [c \in Clients |-> << >>]
    /\ failing = {}
    /\ answered = NoAnswer
    /\ mux = NoNotice

\* ---------------------------------------------------------------- actions

DInit ==
    /\ d_pc = "start"
    /\ clock = 0
    /\ now = 0
    /\ active_src = "none"
    /\ last_seen_cam = 0
    /\ cam_stable_since = NoTime
    /\ stats = Unbound
    /\ emitted = << >>
    /\ probe = "none"
    /\ probe_seen = NoStream
    /\ run_healthy = FALSE
    /\ run_start = NoTime
    /\ run_failed = FALSE
    /\ last_unhealthy = NoTime
    /\ ever_healthy = FALSE
    /\ ever_stream = FALSE

\* main, lines 190-198: call_switch("offline"), then time.sleep(1).
Start(ok) ==
    /\ d_pc = "start"
    /\ d_pc' = "loop"
    /\ active_src' = SwitchedSource(active_src, "offline", ok)
    /\ emitted' = Append(emitted, Cmd(active_src, "offline", ok, now))
    /\ clock' = clock + STARTUP_SLEEP
    /\ UNCHANGED <<now, last_seen_cam, cam_stable_since, stats, probe,
                   probe_seen, run_healthy, run_start, run_failed,
                   last_unhealthy, ever_healthy, ever_stream>>
    /\ UNCHANGED <<svars, wvars, cvars>>

\* One iteration of the loop: cam_healthy = h was obtained d ticks after
\* the loop woke up, `stats` is st afterwards, and the iteration ends in
\* time.sleep(POLL_SECS).
Iterate(h, kind, seen, st, d, ok) ==
    LET t == clock + d
        r == Decide(h, t, ok, st)
        failed == r.cmd # "none" /\ ~ok
        fresh == probe = "none" \/ run_healthy # h
    IN /\ d_pc = "loop"
       /\ t <= MaxTime
       /\ now' = t
       /\ clock' = t + POLL_SECS
       /\ stats' = st
       /\ d_pc' = IF r.crash THEN "crashed" ELSE "loop"
       /\ active_src' = r.active
       /\ last_seen_cam' = r.seen
       /\ cam_stable_since' = r.stable
       /\ emitted' = IF r.cmd = "none" THEN emitted
                     ELSE Append(emitted, Cmd(active_src, r.cmd, ok, t))
       /\ probe' = kind
       /\ probe_seen' = seen
       /\ run_healthy' = h
       /\ run_start' = IF fresh THEN t ELSE run_start
       /\ run_failed' = IF fresh THEN failed ELSE run_failed \/ failed
       /\ last_unhealthy' = IF h THEN last_unhealthy ELSE t
       /\ ever_healthy' = (ever_healthy \/ h)
       /\ ever_stream' = (ever_stream \/ (kind = "ok" /\ seen.exists))
       /\ UNCHANGED <<svars, wvars, cvars>>

\* lines 201-208: the fetch and the parse succeeded.
ProbeOk(s, d, ok) ==
    Iterate(is_cam_alive_and_healthy(s), "ok", s, s, d, ok)

\* lines 210-213: the fetch raised; cam_healthy = False and `stats` keeps
\* whatever an earlier iteration bound it to.
ProbeFailKeepsHealth(d, ok) ==
    Iterate(probe # "none" /\ run_healthy, "fail", NoStream, stats, d, ok)
ProbeFail(d, ok) ==
    Iterate(FALSE, "fail", NoStream, stats, d, ok)

DNext ==
    \/ \E ok \in BOOLEAN : Start(ok)
    \/ \E s \in Samples, d \in 0..MaxDelay, ok \in BOOLEAN : ProbeOk(s, d, ok)
    \/ \E d \in 0..MaxDelay, ok \in BOOLEAN : ProbeFail(d, ok)

\* The switcher before `switcher = Switcher()` and the supervisor before
\* main(), lines 47-48.
WInit ==
    /\ sw_pc = "new"
    /\ which = "none"
    /\ vsel = "none"
    /\ asel = "none"
    /\ current_source = "none"
    /\ cam_available = FALSE
    /\ current_mode = "none"
    /\ nswitch = 0
    /\ nmode = 0
    /\ switched = 0
    /\ notified = << >>
    /\ frames = {}
    /\ scene_replies = {}
    /\ sup_pc = "probe"
    /\ target = "none"
    /\ switcher_process = 0
    /\ alive = {}
    /\ spawns = << >>
    /\ signals = [p \in 1..MaxSpawns |-> << >>]
    /\ crashed = FALSE
    /\ poll = [orphaned |-> FALSE, mark |-> 0]

\* ContainerController.__init__ and main(): no request served, no thread
\* started, and no container of the project at the runtime.
NoResp == [code |-> 0, status |-> "none", container |-> "none"]
NoText == << >>
NoOp == [pc |-> "none", kind |-> "none", name |-> "none", err |-> NoText,
         removed |-> "none", got |-> "none"]

NoListing == [made |-> FALSE]
NotEvaluated == [fn |-> "none"]

CInit ==
    /\ req = [pc |-> "idle", result |-> NoResp]
    /\ resp = NoResp
    /\ op = NoOp
    /\ cmds = << >>
    /\ ctr = [n \in Names |-> "absent"]
    /\ nreq = 0
    /\ early = FALSE
    /\ listing = NoListing
    /\ evaluated = NotEvaluated

\* The decider, the server, the switcher, the supervisor and the service
\* controller start together, each in its initial state.
Init == DInit /\ SInit /\ WInit /\ CInit

DeciderSpec == Init /\ [][DNext]_vars

\* ------------------------------------------------------- decider claims

Last(s) == s[Len(s)]

\* C1 (as stated): the sequence of emitted scene commands, the initial
\* SWITCH(FALLBACK) included, holds no two consecutive commands for the
\* same scene, and every command of the loop changed the scene (a sample
\* that preserves the scene emits nothing), whatever the switch API answers.
C1_NoRepeatedCommand ==
    /\ \A i \in 1..(Len(emitted) - 1) : emitted[i].src # emitted[i + 1].src
    /\ \A i \in 2..Len(emitted) : emitted[i].ok

\* C1 (amended): every command asks for a scene other than the one the
\* decider is in, and two consecutive commands name the same scene only
\* when the earlier one failed, so the commands that succeeded alternate.
C1_RepeatOnlyAfterFailure ==
    /\ \A i \in 1..Len(emitted) : emitted[i].from # emitted[i].src
    /\ \A i \in 1..(Len(emitted) - 1) :
          emitted[i].src = emitted[i + 1].src => ~emitted[i].ok

C1_Witness ==
    /\ Len(emitted) >= 4
    /\ \E i \in 1..(Len(emitted) - 1) :
          /\ emitted[i].src = emitted[i + 1].src
          /\ ~emitted[i].ok /\ emitted[i + 1].ok
    /\ \E i \in 1..(Len(emitted) - 1) :
          /\ emitted[i].ok /\ emitted[i].src = "cam"
          /\ emitted[i + 1].src = "offline"

\* C2: a SWITCH(FALLBACK) of the loop comes at least CAM_MISS_TIMEOUT after
\* every earlier successful SWITCH(LIVE), and a SWITCH(LIVE) at least
\* CAM_BACK_STABILITY after every earlier successful SWITCH(FALLBACK)
\* (times are the monotonic times of the samples that issued the commands).
C2_NoOscillation ==
    \A i \in 1..Len(emitted) : \A j \in (i + 1)..Len(emitted) :
        /\ (emitted[i].ok /\ emitted[i].src = "cam" /\ emitted[j].src = "offline")
              => emitted[j].at - emitted[i].at >= CAM_MISS_TIMEOUT
        /\ (emitted[i].ok /\ emitted[i].src = "offline" /\ emitted[j].src = "cam")
              => emitted[j].at - emitted[i].at >= CAM_BACK_STABILITY

C2_Witness ==
    \E i \in 1..Len(emitted) : \E j \in (i + 1)..Len(emitted) :
      \E k \in (j + 1)..Len(emitted) :
        /\ emitted[i].ok /\ emitted[i].src = "offline"
        /\ emitted[j].ok /\ emitted[j].src = "cam"
        /\ emitted[j].at - emitted[i].at = CAM_BACK_STABILITY + STARTUP_SLEEP
        /\ emitted[k].src = "offline"
        /\ emitted[k].at - emitted[j].at = CAM_MISS_TIMEOUT

\* C3 (as stated): once the start-up is over and before any sample is
\* taken, exactly SWITCH(FALLBACK) has been emitted, active_src is
\* "offline" and cam_stable_since is None; and as long as no probe has found
\* the stream, nothing else is emitted.
C3_StartsInFallback ==
    /\ (d_pc = "loop" /\ probe = "none") =>
          /\ Len(emitted) = 1 /\ emitted[1].src = "offline"
          /\ active_src = "offline"
          /\ cam_stable_since = NoTime
    /\ (d_pc # "start" /\ ~ever_stream) => Len(emitted) = 1

\* C4 (as stated): when every sample since start-up was unhealthy and
\* CAM_MISS_TIMEOUT has passed since start-up, or when the current run of
\* unhealthy samples spans CAM_MISS_TIMEOUT, the active scene is FALLBACK.
C4_UnhealthyEndsInFallback ==
    (/\ probe # "none"
     /\ ~run_healthy
     /\ \/ ~ever_healthy /\ now >= CAM_MISS_TIMEOUT
        \/ now - run_start >= CAM_MISS_TIMEOUT)
    => active_src = "offline"

\* The case of C5: the current run of healthy samples spans
\* CAM_BACK_STABILITY and no unhealthy sample lies within CAM_MISS_TIMEOUT
\* of the last sample.
HealthyLongEnough ==
    /\ probe # "none"
    /\ run_healthy
    /\ now - run_start >= CAM_BACK_STABILITY
    /\ (last_unhealthy = NoTime \/ now - last_unhealthy >= CAM_MISS_TIMEOUT)

EffectOf(h, st, ok) ==
    LET r == Decide(h, now', ok, st)
    IN /\ ~r.crash
       /\ active_src' = r.active
       /\ last_seen_cam' = r.seen
       /\ cam_stable_since' = r.stable
       /\ emitted' = IF r.cmd = "none" THEN emitted
                     ELSE Append(emitted, Cmd(active_src, r.cmd, ok, now'))

\* C6: the loop never dies, and an iteration whose probe failed changes
\* the decider state and emits the command exactly as an iteration would
\* that sampled exists=false at the same time in the same state.
C6_ProbeFailureIsNoStream ==
    /\ [](d_pc # "crashed")
    /\ [][ (d_pc = "loop" /\ probe' = "fail") =>
            /\ d_pc' = "loop"
            /\ \E ok \in BOOLEAN :
                 EffectOf(is_cam_alive_and_healthy(NoStream), NoStream, ok) ]_vars

C6_Witness ==
    /\ probe = "fail"
    /\ d_pc = "loop"
    /\ Len(emitted) >= 2
    /\ Last(emitted).src = "offline" /\ Last(emitted).at = now


\* ======================================================================
\*  Fan-out server: operations
\* ======================================================================

ListOutcomes == {"ok", "docker_error", "raise"}

\* list_containers, lines 785-889, for one answer o of the runtime: the
\* merged list on "ok", every service "unknown" on a DockerException, and
\* RuntimeError on any other exception.
list_containers(o) ==
    [ raised  |-> (o = "raise"),
      status  |-> [s \in Services |->
                     IF o = "docker_error" THEN "unknown"
                     ELSE IF runtime[s] = "absent" THEN "not-created"
                     ELSE runtime[s]],
      created |-> [s \in Services |-> o = "ok" /\ runtime[s] # "absent"] ]

TailOf(lines, n) ==
    IF Len(lines) <= n THEN lines
    ELSE SubSeq(lines, Len(lines) - n + 1, Len(lines))

\* get_logs, lines 995-1028: ValueError when the container does not exist.
get_logs(s, n) ==
    [raised |-> runtime[s] = "absent", logs |-> TailOf(log[s], n)]

\* list.index: the first position of x in lines, 0 when absent.
IndexOf(lines, x) ==
    IF \E i \in 1..Len(lines) : lines[i] = x
    THEN CHOOSE i \in 1..Len(lines) :
            /\ lines[i] = x
            /\ \A j \in 1..(i - 1) : lines[j] # x
    ELSE 0

\* A tick that would send the anchor again: logs[idx:] for logs[idx+1:].
NewLogsFromAnchor(logs, last_sent) ==
    IF last_sent # 0
    THEN IF IndexOf(logs, last_sent) # 0
         THEN SubSeq(logs, IndexOf(logs, last_sent), Len(logs))
         ELSE logs
    ELSE logs

\* stream_logs, lines 1320-1334: the lines after the anchor, or all of them.
NewLogs(logs, last_sent) ==
    IF last_sent # 0
    THEN IF IndexOf(logs, last_sent) # 0
         THEN SubSeq(logs, IndexOf(logs, last_sent) + 1, Len(logs))
         ELSE logs
    ELSE logs

\* `if old_scene != scene`, line 158.
SceneAlwaysDiffers(old_scene, new_scene) == TRUE
SceneDiffers(old_scene, new_scene) == old_scene # new_scene

\* get_state(), lines 214-221 (the caller must get hold of _lock).
get_state == [current_scene |-> scene, privacy_enabled |-> privacy,
              scene_timestamp |-> scene_ts]

\* client.send raises unless the socket is open.
SendOk(c) == conn[c] = "open"

Deliver(c, msg) ==
    IF SendOk(c) THEN [rx EXCEPT ![c] = Append(@, msg)] ELSE rx

\* ---- iteration over self.clients across `await client.send` ----------
IterFirst(c) == [cur |-> c, visited |-> {c}, snap |-> clients, disc |-> {}]

\* "Set changed size during iteration": checked by every next().
IterBroken(it) == Cardinality(clients) # Cardinality(it.snap)

\* Members the iterator still has to yield, and members added meanwhile
\* that it may or may not come across.
IterMust(it) == (it.snap \cap clients) \ it.visited
IterMay(it) == (clients \ it.snap) \ it.visited

IterAfterSend(it) ==
    [it EXCEPT !.disc = IF SendOk(it.cur) THEN @ ELSE @ \cup {it.cur}]

IterStep(it, n) == [it EXCEPT !.cur = n, !.visited = @ \cup {n}]

\* unregister_client for each client of S, lines 1122-1134: out of
\* self.clients and out of every log subscription; a dict that becomes
\* empty is deleted from log_subscribers, so a log tick that holds it no
\* longer holds the server's dict.
SubsWithout(S) == [s \in Services |-> log_subscribers[s] \ S]

TickOrphanedBy(subs) ==
    IF tick.pc = "send" /\ log_subscribers[tick.svc] # {} /\ subs[tick.svc] = {}
    THEN [tick EXCEPT !.alias = FALSE]
    ELSE tick

\* An unregister_client that only discards from self.clients.
UnregisterClientOnly(S) ==
    /\ clients' = clients \ S
    /\ UNCHANGED <<log_subscribers, tick>>

Unregister(S) ==
    /\ clients' = clients \ S
    /\ log_subscribers' = SubsWithout(S)
    /\ tick' = TickOrphanedBy(SubsWithout(S))

\* The runtime answers a list call with o; failures are counted.
Faulty(o) ==
    /\ o # "ok" => nfaults < MaxFaults
    /\ nfaults' = IF o = "ok" THEN nfaults ELSE nfaults + 1

\* ---- start-up ----------------------------------------------------------

\* The status the monitor stores for each service, and the services it
\* reports, lines 1207-1252.
PollChanges(r) ==
    {s \in Services :
        IF last_container_state[s] # "absent"
        THEN last_container_state[s] # r.status[s]
        ELSE r.created[s]}

ChangeRecords(r) ==
    {[name |-> s, previousStatus |-> last_container_state[s],
      currentStatus |-> r.status[s]] : s \in PollChanges(r)}

\* start(), lines 1425-1440: the loop reference is stored and the monitor
\* runs its first poll before the server accepts connections.
ServerStart(o) ==
    /\ blocked = Unblocked
    /\ ~loop_set
    /\ Faulty(o)
    /\ loop_set' = TRUE
    /\ last_container_state' =
         IF list_containers(o).raised THEN last_container_state
         ELSE list_containers(o).status
    /\ UNCHANGED <<clients, log_subscribers, last_sent_logs, scene, scene_ts,
                   privacy, privacy_file, lock, http, bcasts, mon, tick, hpc,
                   hreq, conn, runtime, log, nlines, log_reset, rx, posts,
                   nchanges, nsubs, callback_locked, mon_last, lifecycle,
                   blocked, sending, failing, answered, mux>>
    /\ UNCHANGED <<dvars, wvars, cvars>>

\* The coroutine that runs is not inside a runtime call, or it is the one
\* whose call is about to return: list_containers and get_logs are called
\* from the coroutines themselves (lines 1142, 1204, 1270, 1315), so the
\* loop's thread runs nothing else until the call has returned.
Calling(task, c) == blocked \in {Unblocked, [task |-> task, client |-> c]}

\* ---- connections -------------------------------------------------------

Connected == {c \in clients : conn[c] = "open"}

\* handle_connection -> register_client -> send_initial_state up to its
\* `await websocket.send`, lines 1402-1408, 1110-1120, 1136-1159. Clients
\* are numbered in the order they connect.
Connect(c, o) ==
    /\ Calling("connect", c)
    /\ loop_set
    /\ hpc[c] = "idle"
    /\ \A d \in Clients : d < c => hpc[d] # "idle"
    /\ Faulty(o)
    /\ clients' = clients \cup {c}
    /\ conn' = [conn EXCEPT ![c] = "open"]
    /\ IF list_containers(o).raised
       THEN /\ hpc' = [hpc EXCEPT ![c] = "loop"]
            /\ hreq' = hreq
       ELSE /\ lock = "free"
            /\ hpc' = [hpc EXCEPT ![c] = "init_send"]
            /\ hreq' = [hreq EXCEPT ![c] =
                          [type |-> "initial_state",
                           containers |-> list_containers(o).status,
                           current_scene |-> get_state.current_scene,
                           privacy_enabled |-> get_state.privacy_enabled]]
    /\ blocked' = Unblocked
    /\ UNCHANGED <<loop_set, log_subscribers, last_container_state,
                   last_sent_logs, scene, scene_ts, privacy, privacy_file,
                   lock, http, bcasts, mon, tick, runtime, log, nlines,
                   log_reset, rx, posts, nchanges, nsubs, callback_locked,
                   mon_last, lifecycle, sending, failing, answered, mux>>
    /\ UNCHANGED <<dvars, wvars, cvars>>

\* send_initial_state after the await, lines 1159-1165.
InitSendDone(c) ==
    /\ blocked = Unblocked
    /\ hpc[c] = "init_send"
    /\ rx' = Deliver(c, hreq[c])
    /\ hpc' = [hpc EXCEPT ![c] = "loop"]
    /\ hreq' = [hreq EXCEPT ![c] = NoReq]
    /\ UNCHANGED <<loop_set, clients, log_subscribers, last_container_state,
                   last_sent_logs, scene, scene_ts, privacy, privacy_file,
                   lock, http, bcasts, mon, tick, conn, runtime, log, nlines,
                   log_reset, posts, nchanges, nfaults, nsubs, callback_locked,
                   mon_last, lifecycle, blocked, sending, failing, answered,
                   mux>>
    /\ UNCHANGED <<dvars, wvars, cvars>>

\* The peer goes away: every later send to it raises.
PeerClose(c) ==
    /\ conn[c] = "open"
    /\ conn' = [conn EXCEPT ![c] = "gone"]
    /\ UNCHANGED <<loop_set, clients, log_subscribers, last_container_state,
                   last_sent_logs, scene, scene_ts, privacy, privacy_file,
                   lock, http, bcasts, mon, tick, hpc, hreq, runtime, log,
                   nlines, log_reset, rx, posts, nchanges, nfaults, nsubs,
                   callback_locked, mon_last, lifecycle, blocked, sending,
                   failing, answered, mux>>
    /\ UNCHANGED <<dvars, wvars, cvars>>

\* handle_connection's finally, lines 1414-1423.
HandlerExit(c) ==
    /\ blocked = Unblocked
    /\ hpc[c] = "loop"
    /\ conn[c] = "gone"
    /\ hpc' = [hpc EXCEPT ![c] = "done"]
    /\ Unregister({c})
    /\ UNCHANGED <<loop_set, last_container_state, last_sent_logs, scene,
                   scene_ts, privacy, privacy_file, lock, http, bcasts, mon,
                   hreq, conn, runtime, log, nlines, log_reset, rx, posts,
                   nchanges, nfaults, nsubs, callback_locked, mon_last,
                   lifecycle, blocked, sending, failing, answered, mux>>
    /\ UNCHANGED <<dvars, wvars, cvars>>

\* subscribe_logs: handle_log_subscription up to its await, lines 1266-1280.
Subscribe(c, s) ==
    /\ Calling("subscribe", c)
    /\ hpc[c] = "loop"
    /\ conn[c] = "open"
    /\ nsubs[c] < MaxSubscribes
    /\ nsubs' = [nsubs EXCEPT ![c] = @ + 1]
    /\ IF get_logs(s, SNAPSHOT_TAIL).raised
       THEN UNCHANGED <<hpc, hreq>>
       ELSE /\ hpc' = [hpc EXCEPT ![c] = "snap_send"]
            /\ hreq' = [hreq EXCEPT ![c] =
                          [type |-> "log_snapshot", container |-> s,
                           logs |-> get_logs(s, SNAPSHOT_TAIL).logs]]
    /\ blocked' = Unblocked
    /\ UNCHANGED <<loop_set, clients, log_subscribers, last_container_state,
                   last_sent_logs, scene, scene_ts, privacy, privacy_file,
                   lock, http, bcasts, mon, tick, conn, runtime, log, nlines,
                   log_reset, rx, posts, nchanges, nfaults, callback_locked,
                   mon_last, lifecycle, sending, failing, answered, mux>>
    /\ UNCHANGED <<dvars, wvars, cvars>>

\* handle_log_subscription after the await, lines 1280-1291: the client is
\* registered as a subscriber once the snapshot is out.
SnapSendDone(c) ==
    /\ blocked = Unblocked
    /\ hpc[c] = "snap_send"
    /\ rx' = Deliver(c, hreq[c])
    /\ log_subscribers' =
         IF SendOk(c)
         THEN [log_subscribers EXCEPT ![hreq[c].container] = @ \cup {c}]
         ELSE log_subscribers
    /\ hpc' = [hpc EXCEPT ![c] = "loop"]
    /\ hreq' = [hreq EXCEPT ![c] = NoReq]
    /\ UNCHANGED <<loop_set, clients, last_container_state, last_sent_logs,
                   scene, scene_ts, privacy, privacy_file, lock, http, bcasts,
                   mon, tick, conn, runtime, log, nlines, log_reset, posts,
                   nchanges, nfaults, nsubs, callback_locked, mon_last,
                   lifecycle, blocked, sending, failing, answered, mux>>
    /\ UNCHANGED <<dvars, wvars, cvars>>

\* unsubscribe_logs: handle_log_unsubscription, lines 1293-1300.
Unsubscribe(c, s) ==
    /\ blocked = Unblocked
    /\ hpc[c] = "loop"
    /\ conn[c] = "open"
    /\ c \in log_subscribers[s]
    /\ log_subscribers' = [log_subscribers EXCEPT ![s] = @ \ {c}]
    /\ tick' = TickOrphanedBy([log_subscribers EXCEPT ![s] = @ \ {c}])
    /\ UNCHANGED <<loop_set, clients, last_container_state, last_sent_logs,
                   scene, scene_ts, privacy, privacy_file, lock, http, bcasts,
                   mon, hpc, hreq, conn, runtime, log, nlines, log_reset, rx,
                   posts, nchanges, nfaults, nsubs, callback_locked, mon_last,
                   lifecycle, blocked, sending, failing, answered, mux>>
    /\ UNCHANGED <<dvars, wvars, cvars>>

\* ---- the HTTP thread: scene and privacy ---------------------------------

\* path_parts[1].upper() and path_parts[1].lower(), lines 1495 and 1511.
Upper(x) ==
    CASE x = "live" -> "LIVE"
      [] x = "fallback" -> "FALLBACK"
      [] x = "bogus" -> "BOGUS"
      [] OTHER -> x

Lower(x) ==
    CASE x = "ENABLE" -> "enable"
      [] x = "DISABLE" -> "disable"
      [] x = "CAM" -> "cam"
      [] OTHER -> x

SceneInputs == {"live", "fallback", "LIVE", "bogus", ""}
PrivacyInputs == {"enable", "disable", "ENABLE", "bogus", ""}

\* do_POST, lines 1488-1576: the status of the response to POST /scene/<x>
\* or /privacy/<x>. "/scene/" splits into one part only and ends in the
\* last branch; 0 stands for the 200 that is sent once the manager returned.
ResponseCode(x, names) ==
    IF x = "" THEN 404 ELSE IF x \in names THEN 0 ELSE 400

\* _on_scene_privacy_change, lines 1058-1073: the broadcast coroutine is
\* handed to the loop if the loop reference is stored, else dropped.
Scheduled(type, data) ==
    IF loop_set
    THEN Append(bcasts, [type |-> type, data |-> data, st |-> "queued",
                         who |-> Connected, msg |-> NoReq, it |-> NoIter])
    ELSE bcasts

\* A handler that hands every non-empty name to set_scene.
PostSceneUnchecked(x) ==
    /\ http = "idle"
    /\ posts' = posts + 1
    /\ answered' = [route |-> "scene", arg |-> x,
                    code |-> ResponseCode(Upper(x), {Upper(x)}),
                    changed |-> x # "" /\ scene # Upper(x)]
    /\ IF x # ""
       THEN /\ lock = "free"
            /\ lock' = "http"
            /\ http' = "release"
            /\ IF scene # Upper(x)
               THEN /\ scene' = Upper(x)
                    /\ scene_ts' = scene_ts + 1
                    /\ callback_locked' = TRUE
                    /\ bcasts' = Scheduled("scene_change", Upper(x))
               ELSE UNCHANGED <<scene, scene_ts, callback_locked, bcasts>>
       ELSE UNCHANGED <<lock, http, scene, scene_ts, callback_locked, bcasts>>
    /\ UNCHANGED <<loop_set, clients, log_subscribers, last_container_state,
                   last_sent_logs, privacy, privacy_file, mon, tick, hpc, hreq,
                   conn, runtime, log, nlines, log_reset, rx, nchanges,
                   nfaults, nsubs, mon_last, lifecycle, blocked, sending,
                   failing, mux>>
    /\ UNCHANGED <<dvars, wvars, cvars>>

\* do_POST /scene/<x> with set_scene, lines 1494-1508 and 154-174: the
\* callback runs inside `with self._lock`.
PostScene(x) ==
    /\ http = "idle"
    /\ posts' = posts + 1
    /\ answered' = [route |-> "scene", arg |-> x,
                    code |-> ResponseCode(Upper(x), {"LIVE", "FALLBACK"}),
                    changed |-> /\ Upper(x) \in {"LIVE", "FALLBACK"}
                                /\ SceneDiffers(scene, Upper(x))]
    /\ IF Upper(x) \in {"LIVE", "FALLBACK"}
       THEN /\ lock = "free"
            /\ lock' = "http"
            /\ http' = "release"
            /\ IF SceneDiffers(scene, Upper(x))
               THEN /\ scene' = Upper(x)
                    /\ scene_ts' = scene_ts + 1
                    /\ callback_locked' = TRUE
                    /\ bcasts' = Scheduled("scene_change", Upper(x))
               ELSE UNCHANGED <<scene, scene_ts, callback_locked, bcasts>>
       ELSE UNCHANGED <<lock, http, scene, scene_ts, callback_locked, bcasts>>
    /\ UNCHANGED <<loop_set, clients, log_subscribers, last_container_state,
                   last_sent_logs, privacy, privacy_file, mon, tick, hpc, hreq,
                   conn, runtime, log, nlines, log_reset, rx, nchanges,
                   nfaults, nsubs, mon_last, lifecycle, blocked, sending,
                   failing, mux>>
    /\ UNCHANGED <<dvars, wvars, cvars>>

\* _save_privacy_state, lines 83-97: a write that fails is swallowed.
Saved(ok, enabled) ==
    IF ok THEN (IF enabled THEN "true" ELSE "false") ELSE privacy_file

\* _notify_multiplexer(enabled), lines 99-123: a daemon thread is started
\* for the k-th request and the caller goes on.
Notifying(k, enabled) ==
    [mux EXCEPT !.pending = @ \cup {[id |-> k, enabled |-> enabled]}]

\* do_POST /privacy/<a> with enable_privacy / disable_privacy, lines
\* 1510-1531 and 176-212.
PostPrivacy(a, ok) ==
    /\ http = "idle"
    /\ posts' = posts + 1
    /\ answered' = [route |-> "privacy", arg |-> a,
                    code |-> ResponseCode(Lower(a), {"enable", "disable"}),
                    changed |-> /\ Lower(a) \in {"enable", "disable"}
                                /\ privacy # (Lower(a) = "enable")]
    /\ IF Lower(a) \in {"enable", "disable"}
       THEN /\ lock = "free"
            /\ lock' = "http"
            /\ http' = "release"
            /\ IF privacy # (Lower(a) = "enable")
               THEN /\ privacy' = (Lower(a) = "enable")
                    /\ privacy_file' = Saved(ok, Lower(a) = "enable")
                    /\ mux' = Notifying(posts + 1, Lower(a) = "enable")
                    /\ callback_locked' = TRUE
                    /\ bcasts' = Scheduled("privacy_change", Lower(a))
               ELSE /\ ok
                    /\ UNCHANGED <<privacy, privacy_file, callback_locked,
                                   bcasts, mux>>
       ELSE /\ ok
            /\ UNCHANGED <<lock, http, privacy, privacy_file,
                           callback_locked, bcasts, mux>>
    /\ UNCHANGED <<loop_set, clients, log_subscribers, last_container_state,
                   last_sent_logs, scene, scene_ts, mon, tick, hpc, hreq, conn,
                   runtime, log, nlines, log_reset, rx, nchanges, nfaults,
                   nsubs, mon_last, lifecycle, blocked, sending, failing>>
    /\ UNCHANGED <<dvars, wvars, cvars>>

\* do_notify, lines 101-119: the thread's POST /privacy reaches the
\* multiplexer, or urlopen raises and the notification is dropped.
Notify(n, ok) ==
    /\ n \in mux.pending
    /\ mux' = [pending |-> mux.pending \ {n},
               got |-> IF ok THEN Append(mux.got, n) ELSE mux.got]
    /\ UNCHANGED <<loop_set, clients, log_subscribers, last_container_state,
                   last_sent_logs, scene, scene_ts, privacy, privacy_file,
                   lock, http, bcasts, mon, tick, hpc, hreq, conn, runtime,
                   log, nlines, log_reset, rx, posts, nchanges, nfaults, nsubs,
                   callback_locked, mon_last, lifecycle, blocked, sending,
                   failing, answered>>
    /\ UNCHANGED <<dvars, wvars, cvars>>

\* A callback that waits for the broadcast it scheduled (future.result())
\* before the `with self._lock` block ends.
HttpReleaseAfterBroadcast ==
    /\ http = "release"
    /\ \A i \in 1..Len(bcasts) : bcasts[i].st \in {"done", "failed"}
    /\ lock' = "free"
    /\ http' = "idle"
    /\ answered' = [answered EXCEPT !.code = 200]
    /\ UNCHANGED <<loop_set, clients, log_subscribers, last_container_state,
                   last_sent_logs, scene, scene_ts, privacy, privacy_file,
                   bcasts, mon, tick, hpc, hreq, conn, runtime, log, nlines,
                   log_reset, rx, posts, nchanges, nfaults, nsubs,
                   callback_locked, mon_last, lifecycle, blocked, sending,
                   failing, mux>>
    /\ UNCHANGED <<dvars, wvars, cvars>>

\* The `with self._lock` block ends and the response is written.
HttpRelease ==
    /\ http = "release"
    /\ lock' = "free"
    /\ http' = "idle"
    /\ answered' = [answered EXCEPT !.code = 200]
    /\ UNCHANGED <<loop_set, clients, log_subscribers, last_container_state,
                   last_sent_logs, scene, scene_ts, privacy, privacy_file,
                   bcasts, mon, tick, hpc, hreq, conn, runtime, log, nlines,
                   log_reset, rx, posts, nchanges, nfaults, nsubs,
                   callback_locked, mon_last, lifecycle, blocked, sending,
                   failing, mux>>
    /\ UNCHANGED <<dvars, wvars, cvars>>

\* ---- _broadcast_scene_privacy_change, lines 1075-1108 --------------------

FirstQueued(i) ==
    /\ i \in 1..Len(bcasts)
    /\ bcasts[i].st = "queued"
    /\ \A j \in 1..(i - 1) : bcasts[j].st # "queued"

\* Broadcast i calls client.send for c: on an open socket the frame is
\* handed to the connection and the call may wait; on a closed one the
\* call raises.
SendBegun(q, i, c) ==
    IF conn[c] = "open" THEN [q EXCEPT ![c] = Append(@, i)] ELSE q

SendEnded(q, i, c) ==
    [q EXCEPT ![c] = SelectSeq(@, LAMBDA j : j # i)]

FailBegun(i, c) == IF conn[c] = "open" THEN failing \ {i} ELSE failing \cup {i}

\* `if not self.clients: return`
BcastSkip(i) ==
    /\ blocked = Unblocked
    /\ FirstQueued(i)
    /\ clients = {}
    /\ bcasts' = [bcasts EXCEPT ![i].st = "done"]
    /\ UNCHANGED <<loop_set, clients, log_subscribers, last_container_state,
                   last_sent_logs, scene, scene_ts, privacy, privacy_file,
                   lock, http, mon, tick, hpc, hreq, conn, runtime, log,
                   nlines, log_reset, rx, posts, nchanges, nfaults, nsubs,
                   callback_locked, mon_last, lifecycle, blocked, sending,
                   failing, answered, mux>>
    /\ UNCHANGED <<dvars, wvars, cvars>>

\* get_state(), the message, and the loop up to its first await.
BcastStart(i, c) ==
    /\ blocked = Unblocked
    /\ FirstQueued(i)
    /\ c \in clients
    /\ lock = "free"
    /\ bcasts' = [bcasts EXCEPT ![i] =
                    [@ EXCEPT !.st = "send",
                              !.msg = [type |-> bcasts[i].type, id |-> i,
                                       current_scene |-> get_state.current_scene,
                                       privacy_enabled |-> get_state.privacy_enabled,
                                       change_data |-> bcasts[i].data],
                              !.it = IterFirst(c)]]
    /\ sending' = SendBegun(sending, i, c)
    /\ failing' = FailBegun(i, c)
    /\ UNCHANGED <<loop_set, clients, log_subscribers, last_container_state,
                   last_sent_logs, scene, scene_ts, privacy, privacy_file,
                   lock, http, mon, tick, hpc, hreq, conn, runtime, log,
                   nlines, log_reset, rx, posts, nchanges, nfaults, nsubs,
                   callback_locked, mon_last, lifecycle, blocked, answered, mux>>
    /\ UNCHANGED <<dvars, wvars, cvars>>

\* The send ends and the loop goes on to another client.
BcastNext(i, n) ==
    /\ blocked = Unblocked
    /\ i \in 1..Len(bcasts)
    /\ bcasts[i].st = "send"
    /\ ~IterBroken(bcasts[i].it)
    /\ n \in IterMust(bcasts[i].it) \cup IterMay(bcasts[i].it)
    /\ rx' = Deliver(bcasts[i].it.cur, bcasts[i].msg)
    /\ bcasts' = [bcasts EXCEPT ![i].it = IterStep(IterAfterSend(@), n)]
    /\ sending' = SendBegun(SendEnded(sending, i, bcasts[i].it.cur), i, n)
    /\ failing' = FailBegun(i, n)
    /\ UNCHANGED <<loop_set, clients, log_subscribers, last_container_state,
                   last_sent_logs, scene, scene_ts, privacy, privacy_file,
                   lock, http, mon, tick, hpc, hreq, conn, runtime, log,
                   nlines, log_reset, posts, nchanges, nfaults, nsubs,
                   callback_locked, mon_last, lifecycle, blocked, answered, mux>>
    /\ UNCHANGED <<dvars, wvars, cvars>>

\* The send ends, the loop is exhausted and the clients whose send raised
\* are unregistered.
BcastFinish(i) ==
    /\ blocked = Unblocked
    /\ i \in 1..Len(bcasts)
    /\ bcasts[i].st = "send"
    /\ ~IterBroken(bcasts[i].it)
    /\ IterMust(bcasts[i].it) = {}
    /\ rx' = Deliver(bcasts[i].it.cur, bcasts[i].msg)
    /\ bcasts' = [bcasts EXCEPT ![i].st = "done", ![i].msg = NoReq,
                                ![i].it = NoIter]
    /\ Unregister(IterAfterSend(bcasts[i].it).disc)
    /\ sending' = SendEnded(sending, i, bcasts[i].it.cur)
    /\ failing' = failing \ {i}
    /\ UNCHANGED <<loop_set, last_container_state, last_sent_logs, scene,
                   scene_ts, privacy, privacy_file, lock, http, mon, hpc, hreq,
                   conn, runtime, log, nlines, log_reset, posts, nchanges,
                   nfaults, nsubs, callback_locked, mon_last, lifecycle,
                   blocked, answered, mux>>
    /\ UNCHANGED <<dvars, wvars, cvars>>

\* The send ends and the set's size has changed: the loop raises
\* RuntimeError out of the coroutine, before the clean-up.
BcastAbort(i) ==
    /\ blocked = Unblocked
    /\ i \in 1..Len(bcasts)
    /\ bcasts[i].st = "send"
    /\ IterBroken(bcasts[i].it)
    /\ rx' = Deliver(bcasts[i].it.cur, bcasts[i].msg)
    /\ bcasts' = [bcasts EXCEPT ![i].st = "failed", ![i].msg = NoReq,
                                ![i].it = NoIter]
    /\ sending' = SendEnded(sending, i, bcasts[i].it.cur)
    /\ failing' = failing \ {i}
    /\ UNCHANGED <<loop_set, clients, log_subscribers, last_container_state,
                   last_sent_logs, scene, scene_ts, privacy, privacy_file,
                   lock, http, mon, tick, hpc, hreq, conn, runtime, log,
                   nlines, log_reset, posts, nchanges, nfaults, nsubs,
                   callback_locked, mon_last, lifecycle, blocked, answered, mux>>
    /\ UNCHANGED <<dvars, wvars, cvars>>

\* ---- monitor_container_status, lines 1197-1264 --------------------------

\* The clients that were connected when the lifecycle change happened that
\* this poll reports.
Across(r) ==
    IF ChangeRecords(r) = {[name |-> "svc", previousStatus |-> lifecycle.from,
                            currentStatus |-> lifecycle.to]}
    THEN lifecycle.who \cap Connected
    ELSE {}

\* A poll that broadcasts nothing: list_containers raised, nothing
\* changed, or nobody is connected.
MonitorPoll(o) ==
    /\ Calling("monitor", 0)
    /\ loop_set
    /\ mon.pc = "sleep"
    /\ Faulty(o)
    /\ \/ list_containers(o).raised
       \/ ChangeRecords(list_containers(o)) = {}
       \/ clients = {}
    /\ last_container_state' =
         IF list_containers(o).raised THEN last_container_state
         ELSE list_containers(o).status
    /\ blocked' = Unblocked
    /\ UNCHANGED <<loop_set, clients, log_subscribers, last_sent_logs, scene,
                   scene_ts, privacy, privacy_file, lock, http, bcasts, mon,
                   tick, hpc, hreq, conn, runtime, log, nlines, log_reset, rx,
                   posts, nchanges, nsubs, callback_locked, mon_last,
                   lifecycle, sending, failing, answered, mux>>
    /\ UNCHANGED <<dvars, wvars, cvars>>

\* A poll that finds changes: the state is stored, then
\* broadcast_status_change runs up to its first await, lines 1167-1187.
MonitorBroadcast(o, c) ==
    /\ Calling("monitor", 0)
    /\ loop_set
    /\ mon.pc = "sleep"
    /\ Faulty(o)
    /\ ~list_containers(o).raised
    /\ ChangeRecords(list_containers(o)) # {}
    /\ c \in clients
    /\ lock = "free"
    /\ last_container_state' = list_containers(o).status
    /\ mon' = [pc |-> "send",
               changes |-> ChangeRecords(list_containers(o)),
               seq |-> nchanges + nfaults',
               who |-> Connected,
               across |-> Across(list_containers(o)),
               msg |-> [type |-> "status_change",
                        changes |-> ChangeRecords(list_containers(o)),
                        seq |-> nchanges + nfaults',
                        current_scene |-> get_state.current_scene,
                        privacy_enabled |-> get_state.privacy_enabled],
               it |-> IterFirst(c)]
    /\ blocked' = Unblocked
    /\ UNCHANGED <<loop_set, clients, log_subscribers, last_sent_logs, scene,
                   scene_ts, privacy, privacy_file, lock, http, bcasts, tick,
                   hpc, hreq, conn, runtime, log, nlines, log_reset, rx, posts,
                   nchanges, nsubs, callback_locked, mon_last, lifecycle,
                   sending, failing, answered, mux>>
    /\ UNCHANGED <<dvars, wvars, cvars>>

Ended(m, ok) == [changes |-> m.changes, seq |-> m.seq, who |-> m.who,
                 across |-> m.across, ok |-> ok]

MonitorNext(n) ==
    /\ blocked = Unblocked
    /\ mon.pc = "send"
    /\ ~IterBroken(mon.it)
    /\ n \in IterMust(mon.it) \cup IterMay(mon.it)
    /\ rx' = Deliver(mon.it.cur, mon.msg)
    /\ mon' = [mon EXCEPT !.it = IterStep(IterAfterSend(@), n)]
    /\ UNCHANGED <<loop_set, clients, log_subscribers, last_container_state,
                   last_sent_logs, scene, scene_ts, privacy, privacy_file,
                   lock, http, bcasts, tick, hpc, hreq, conn, runtime, log,
                   nlines, log_reset, posts, nchanges, nfaults, nsubs,
                   callback_locked, mon_last, lifecycle, blocked, sending,
                   failing, answered, mux>>
    /\ UNCHANGED <<dvars, wvars, cvars>>

MonitorFinish ==
    /\ blocked = Unblocked
    /\ mon.pc = "send"
    /\ ~IterBroken(mon.it)
    /\ IterMust(mon.it) = {}
    /\ rx' = Deliver(mon.it.cur, mon.msg)
    /\ Unregister(IterAfterSend(mon.it).disc)
    /\ mon_last' = Ended(mon, TRUE)
    /\ mon' = MonIdle
    /\ UNCHANGED <<loop_set, last_container_state, last_sent_logs, scene,
                   scene_ts, privacy, privacy_file, lock, http, bcasts, hpc,
                   hreq, conn, runtime, log, nlines, log_reset, posts,
                   nchanges, nfaults, nsubs, callback_locked, lifecycle,
                   blocked, sending, failing, answered, mux>>
    /\ UNCHANGED <<dvars, wvars, cvars>>

\* RuntimeError out of the loop, caught by the monitor's `except`, line 1258.
MonitorAbort ==
    /\ blocked = Unblocked
    /\ mon.pc = "send"
    /\ IterBroken(mon.it)
    /\ rx' = Deliver(mon.it.cur, mon.msg)
    /\ mon_last' = Ended(mon, FALSE)
    /\ mon' = MonIdle
    /\ UNCHANGED <<loop_set, clients, log_subscribers, last_container_state,
                   last_sent_logs, scene, scene_ts, privacy, privacy_file,
                   lock, http, bcasts, tick, hpc, hreq, conn, runtime, log,
                   nlines, log_reset, posts, nchanges, nfaults, nsubs,
                   callback_locked, lifecycle, blocked, sending, failing,
                   answered, mux>>
    /\ UNCHANGED <<dvars, wvars, cvars>>

\* ---- stream_logs, lines 1302-1371 ---------------------------------------

NewLogsMsg == [type |-> "new_logs", container |-> tick.svc,
               logs |-> tick.new_logs]

\* One pass over a service with subscribers up to the first await; the
\* anchor moves before anything is sent.
TickStart(s, c) ==
    /\ Calling("tick", 0)
    /\ loop_set
    /\ tick.pc = "sleep"
    /\ c \in log_subscribers[s]
    /\ ~get_logs(s, STREAM_TAIL).raised
    /\ NewLogs(get_logs(s, STREAM_TAIL).logs, last_sent_logs[s]) # << >>
    /\ last_sent_logs' =
         [last_sent_logs EXCEPT ![s] = Last(get_logs(s, STREAM_TAIL).logs)]
    /\ tick' = [pc |-> "send", svc |-> s,
                new_logs |-> NewLogs(get_logs(s, STREAM_TAIL).logs,
                                     last_sent_logs[s]),
                todo |-> log_subscribers[s] \ {c}, cur |-> c, disc |-> {},
                alias |-> TRUE]
    /\ blocked' = Unblocked
    /\ UNCHANGED <<loop_set, clients, log_subscribers, last_container_state,
                   scene, scene_ts, privacy, privacy_file, lock, http, bcasts,
                   mon, hpc, hreq, conn, runtime, log, nlines, log_reset, rx,
                   posts, nchanges, nfaults, nsubs, callback_locked, mon_last,
                   lifecycle, sending, failing, answered, mux>>
    /\ UNCHANGED <<dvars, wvars, cvars>>

\* `subscribers[client] = utcnow()` after a send that went through.
Stamped ==
    IF SendOk(tick.cur) /\ tick.alias
    THEN [log_subscribers EXCEPT ![tick.svc] = @ \cup {tick.cur}]
    ELSE log_subscribers

TickDisc == IF SendOk(tick.cur) THEN tick.disc ELSE tick.disc \cup {tick.cur}

TickNext(n) ==
    /\ blocked = Unblocked
    /\ tick.pc = "send"
    /\ n \in tick.todo
    /\ rx' = Deliver(tick.cur, NewLogsMsg)
    /\ log_subscribers' = Stamped
    /\ tick' = [tick EXCEPT !.cur = n, !.todo = @ \ {n}, !.disc = TickDisc]
    /\ UNCHANGED <<loop_set, clients, last_container_state, last_sent_logs,
                   scene, scene_ts, privacy, privacy_file, lock, http, bcasts,
                   mon, hpc, hreq, conn, runtime, log, nlines, log_reset,
                   posts, nchanges, nfaults, nsubs, callback_locked, mon_last,
                   lifecycle, blocked, sending, failing, answered, mux>>
    /\ UNCHANGED <<dvars, wvars, cvars>>

TickFinish ==
    /\ blocked = Unblocked
    /\ tick.pc = "send"
    /\ tick.todo = {}
    /\ rx' = Deliver(tick.cur, NewLogsMsg)
    /\ log_subscribers' =
         IF tick.alias
         THEN [Stamped EXCEPT ![tick.svc] = @ \ TickDisc]
         ELSE log_subscribers
    /\ tick' = TickIdle
    /\ UNCHANGED <<loop_set, clients, last_container_state, last_sent_logs,
                   scene, scene_ts, privacy, privacy_file, lock, http, bcasts,
                   mon, hpc, hreq, conn, runtime, log, nlines, log_reset,
                   posts, nchanges, nfaults, nsubs, callback_locked, mon_last,
                   lifecycle, blocked, sending, failing, answered, mux>>
    /\ UNCHANGED <<dvars, wvars, cvars>>

\* ---- the container runtime ----------------------------------------------

StatusOf(v) == IF v = "absent" THEN "not-created" ELSE v

LogAppend(s) ==
    /\ runtime[s] = "running"
    /\ nlines < MaxLogLines
    /\ nlines' = nlines + 1
    /\ log' = [log EXCEPT ![s] = Append(@, nlines + 1)]
    /\ UNCHANGED <<loop_set, clients, log_subscribers, last_container_state,
                   last_sent_logs, scene, scene_ts, privacy, privacy_file,
                   lock, http, bcasts, mon, tick, hpc, hreq, conn, runtime,
                   log_reset, rx, posts, nchanges, nfaults, nsubs,
                   callback_locked, mon_last, lifecycle, blocked, sending,
                   failing, answered, mux>>
    /\ UNCHANGED <<dvars, wvars, cvars>>

\* The runtime's log driver rotates the service's log: the oldest line is
\* gone from what container.logs(tail=50) returns (get_logs, lines 1003-1007).
LogRotate(s) ==
    /\ log[s] # << >>
    /\ ~log_reset
    /\ log_reset' = TRUE
    /\ log' = [log EXCEPT ![s] = Tail(@)]
    /\ UNCHANGED <<loop_set, clients, log_subscribers, last_container_state,
                   last_sent_logs, scene, scene_ts, privacy, privacy_file,
                   lock, http, bcasts, mon, tick, hpc, hreq, conn, runtime,
                   nlines, rx, posts, nchanges, nfaults, nsubs,
                   callback_locked, mon_last, lifecycle, blocked, sending,
                   failing, answered, mux>>
    /\ UNCHANGED <<dvars, wvars, cvars>>

RuntimeChange(s, v) ==
    /\ v # runtime[s]
    /\ nchanges < MaxRuntimeChanges
    /\ nchanges' = nchanges + 1
    /\ runtime' = [runtime EXCEPT ![s] = v]
    /\ log' = IF v = "absent" THEN [log EXCEPT ![s] = << >>] ELSE log
    /\ log_reset' = (log_reset \/ (v = "absent" /\ log[s] # << >>))
    /\ lifecycle' = [from |-> StatusOf(runtime[s]), to |-> StatusOf(v),
                     who |-> Connected, n |-> nchanges + 1]
    /\ UNCHANGED <<loop_set, clients, log_subscribers, last_container_state,
                   last_sent_logs, scene, scene_ts, privacy, privacy_file,
                   lock, http, bcasts, mon, tick, hpc, hreq, conn, nlines, rx,
                   posts, nfaults, nsubs, callback_locked, mon_last, blocked,
                   sending, failing, answered, mux>>
    /\ UNCHANGED <<dvars, wvars, cvars>>

\* A coroutine enters a call to the runtime that takes time: the poll's
\* list_containers (line 1204), the log tick's get_logs (line 1315), a new
\* connection's list_containers for initial_state (line 1142) or a
\* subscribe's get_logs (line 1270).
BeginCall(task, c) ==
    /\ blocked = Unblocked
    /\ loop_set
    /\ CASE task = "monitor" -> c = 0 /\ mon.pc = "sleep"
         [] task = "tick" ->
               /\ c = 0
               /\ tick.pc = "sleep"
               /\ \E s \in Services : log_subscribers[s] # {}
         [] task = "connect" ->
               /\ c \in Clients
               /\ hpc[c] = "idle"
               /\ \A d \in Clients : d < c => hpc[d] # "idle"
         [] task = "subscribe" ->
               /\ c \in Clients
               /\ hpc[c] = "loop"
               /\ conn[c] = "open"
               /\ nsubs[c] < MaxSubscribes
         [] OTHER -> FALSE
    /\ blocked' = [task |-> task, client |-> c]
    /\ UNCHANGED <<loop_set, clients, log_subscribers, last_container_state,
                   last_sent_logs, scene, scene_ts, privacy, privacy_file,
                   lock, http, bcasts, mon, tick, hpc, hreq, conn, runtime,
                   log, nlines, log_reset, rx, posts, nchanges, nfaults, nsubs,
                   callback_locked, mon_last, lifecycle, sending, failing,
                   answered, mux>>
    /\ UNCHANGED <<dvars, wvars, cvars>>

\* The log tick's get_logs returns with nothing to send, lines 1313-1337.
TickQuiet(s) ==
    /\ blocked = [task |-> "tick", client |-> 0]
    /\ log_subscribers[s] # {}
    /\ \/ get_logs(s, STREAM_TAIL).raised
       \/ NewLogs(get_logs(s, STREAM_TAIL).logs, last_sent_logs[s]) = << >>
    /\ blocked' = Unblocked
    /\ UNCHANGED <<loop_set, clients, log_subscribers, last_container_state,
                   last_sent_logs, scene, scene_ts, privacy, privacy_file,
                   lock, http, bcasts, mon, tick, hpc, hreq, conn, runtime,
                   log, nlines, log_reset, rx, posts, nchanges, nfaults, nsubs,
                   callback_locked, mon_last, lifecycle, sending, failing,
                   answered, mux>>
    /\ UNCHANGED <<dvars, wvars, cvars>>

\* Connections come and go under every part of the server.
ConnNext ==
    \/ \E o \in ListOutcomes : ServerStart(o)
    \/ \E c \in Clients, o \in ListOutcomes : Connect(c, o)
    \/ \E c \in Clients : InitSendDone(c)
    \/ \E c \in Clients : PeerClose(c)
    \/ \E c \in Clients : HandlerExit(c)

\* The same while the runtime answers every list call.
ConnOkNext ==
    \/ ServerStart("ok")
    \/ \E c \in Clients : Connect(c, "ok")
    \/ \E c \in Clients : InitSendDone(c)
    \/ \E c \in Clients : PeerClose(c)
    \/ \E c \in Clients : HandlerExit(c)

\* Log subscriptions and the log streaming task.
LogNext ==
    \/ ConnOkNext
    \/ \E c \in Clients, s \in Services : Subscribe(c, s)
    \/ \E c \in Clients : SnapSendDone(c)
    \/ \E c \in Clients, s \in Services : Unsubscribe(c, s)
    \/ \E s \in Services, c \in Clients : TickStart(s, c)
    \/ \E n \in Clients : TickNext(n)
    \/ TickFinish
    \/ \E s \in Services : LogAppend(s)

\* Log subscriptions and the log tick over a log that is rotated.
TailNext ==
    \/ LogNext
    \/ \E s \in Services : LogRotate(s)

\* The status monitor and the container runtime.
StatusNext ==
    \/ ConnNext
    \/ \E o \in ListOutcomes : MonitorPoll(o)
    \/ \E o \in ListOutcomes, c \in Clients : MonitorBroadcast(o, c)
    \/ \E n \in Clients : MonitorNext(n)
    \/ MonitorFinish
    \/ MonitorAbort
    \/ \E s \in Services, v \in {"running", "exited", "absent"} :
          RuntimeChange(s, v)

\* The HTTP thread's scene and privacy requests and their broadcasts.
SceneNext ==
    \/ ConnOkNext
    \/ \E x \in SceneInputs : posts < MaxPosts /\ PostScene(x)
    \/ \E a \in PrivacyInputs, ok \in BOOLEAN :
          posts < MaxPosts /\ PostPrivacy(a, ok)
    \/ HttpRelease
    \/ \E i \in 1..MaxPosts : BcastSkip(i)
    \/ \E i \in 1..MaxPosts, c \in Clients : BcastStart(i, c)
    \/ \E i \in 1..MaxPosts, n \in Clients : BcastNext(i, n)
    \/ \E i \in 1..MaxPosts : BcastFinish(i)
    \/ \E i \in 1..MaxPosts : BcastAbort(i)

\* The k-th request of an operator who toggles privacy: enable, disable,
\* enable, ...
Toggle(k) == IF k % 2 = 1 THEN "enable" ELSE "disable"

\* Every broadcast scheduled so far has ended.
Quiet == \A i \in 1..Len(bcasts) : bcasts[i].st \in {"done", "failed"}

\* Privacy toggled over and over, each request after the broadcast of the
\* one before has ended; the clients connect before the first toggle and
\* may go away at any time.
ToggleNext ==
    \/ ServerStart("ok")
    \/ \E c \in Clients : posts = 0 /\ Connect(c, "ok")
    \/ \E c \in Clients : InitSendDone(c)
    \/ \E c \in Clients : PeerClose(c)
    \/ \E c \in Clients : HandlerExit(c)
    \/ \E ok \in BOOLEAN :
          posts < MaxToggles /\ Quiet /\ PostPrivacy(Toggle(posts + 1), ok)
    \/ HttpRelease
    \/ \E i \in 1..MaxToggles : BcastSkip(i)
    \/ \E i \in 1..MaxToggles, c \in Clients : BcastStart(i, c)
    \/ \E i \in 1..MaxToggles, n \in Clients : BcastNext(i, n)
    \/ \E i \in 1..MaxToggles : BcastFinish(i)
    \/ \E i \in 1..MaxToggles : BcastAbort(i)

\* The loop's thread is free for a step of a task other than a send
\* that is raising.
Free == failing = {}

\* Broadcast i's pending send can end: it is raising, or every send to
\* that socket called before it has ended.
Turn(i) ==
    /\ i \in 1..Len(bcasts)
    /\ bcasts[i].st = "send"
    /\ \/ i \in failing
       \/ Free /\ sending[bcasts[i].it.cur] # << >>
               /\ Head(sending[bcasts[i].it.cur]) = i

\* The set's iteration order: the same for every loop over the same set.
FirstOf(S) == CHOOSE c \in S : \A d \in S : c <= d

\* Privacy requests whose broadcasts overlap: sends to one socket end in
\* the order of their calls, a send to a closed socket raises at once, and
\* the clients connect before the first request.
OrderNext ==
    \/ ServerStart("ok")
    \/ \E c \in Clients : posts = 0 /\ Free /\ Connect(c, "ok")
    \/ \E c \in Clients : Free /\ InitSendDone(c)
    \/ \E c \in Clients : PeerClose(c)
    \/ \E c \in Clients : Free /\ HandlerExit(c)
    \/ posts < MaxOverlap /\ PostPrivacy(Toggle(posts + 1), TRUE)
    \/ HttpRelease
    \/ \E i \in 1..MaxOverlap : Free /\ BcastSkip(i)
    \/ \E i \in 1..MaxOverlap :
          Free /\ clients # {} /\ BcastStart(i, FirstOf(clients))
    \/ \E i \in 1..MaxOverlap, n \in Clients :
          /\ Turn(i)
          /\ n = FirstOf(IterMust(bcasts[i].it) \cup IterMay(bcasts[i].it)
                          \cup {n})
          /\ BcastNext(i, n)
    \/ \E i \in 1..MaxOverlap : Turn(i) /\ BcastFinish(i)
    \/ \E i \in 1..MaxOverlap : Turn(i) /\ BcastAbort(i)

\* The log part of the server with runtime calls that take time.
BlockNext ==
    \/ LogNext
    \/ MonitorPoll("ok")
    \/ \E task \in {"monitor", "tick", "connect", "subscribe"},
          c \in Clients \cup {0} : BeginCall(task, c)
    \/ \E s \in Services : TickQuiet(s)

SNext == LogNext \/ StatusNext \/ SceneNext \/ BlockNext

\* Privacy toggled over and over by HTTP requests, and the notification
\* threads they start.
NotifyNext ==
    \/ ServerStart("ok")
    \/ \E ok \in BOOLEAN :
          posts < MaxToggles /\ PostPrivacy(Toggle(posts + 1), ok)
    \/ HttpRelease
    \/ \E i \in 1..MaxToggles : BcastSkip(i)
    \/ \E k \in 1..MaxToggles, e, ok \in BOOLEAN :
          Notify([id |-> k, enabled |-> e], ok)

\* Scene notifications that come again and again, with no client
\* connected.
RepeatNext ==
    \/ ServerStart("ok")
    \/ \E x \in SceneInputs : posts < MaxToggles /\ PostScene(x)
    \/ HttpRelease
    \/ \E i \in 1..MaxToggles : BcastSkip(i)

LogSpec == Init /\ [][LogNext]_vars
TailSpec == Init /\ [][TailNext]_vars
NotifySpec == Init /\ [][NotifyNext]_vars
RepeatSpec == Init /\ [][RepeatNext]_vars
StatusSpec == Init /\ [][StatusNext]_vars
SceneSpec == Init /\ [][SceneNext]_vars
OrderSpec == Init /\ [][OrderNext]_vars
ToggleSpec == Init /\ [][ToggleNext]_vars
BlockSpec == Init /\ [][BlockNext]_vars
ServerSpec == Init /\ [][SNext]_vars

\* The HTTP thread runs on when it can, and so does the event loop with
\* the broadcast it was handed.
FairSceneSpec ==
    /\ SceneSpec
    /\ WF_vars(HttpRelease)
    /\ \A i \in 1..MaxPosts :
          WF_vars(BcastSkip(i) \/ \E c \in Clients : BcastStart(i, c))

\* ======================================================================
\* The A/B-select switcher and the supervisor: their operations
\* ======================================================================

\* `switcher = Switcher()`, rtmp_switcher.py lines 70-283: the inputs are
\* built (the cam input may fail, lines 174-185) and __init__ ends with
\* set_source("offline").
SwitcherInit(cam) ==
    /\ sw_pc = "new"
    /\ cam_available' = cam
    /\ vsel' = "offline"
    /\ asel' = "offline"
    /\ current_source' = "offline"
    /\ sw_pc' = "idle"
    /\ UNCHANGED <<which, current_mode, nswitch, nmode, switched, notified,
                   frames, scene_replies, sup_pc, target, switcher_process,
                   alive, spawns, signals, crashed, poll>>
    /\ UNCHANGED <<dvars, svars, cvars>>

SwitchInputs == {"offline", "cam", "CAM", "bogus", ""}

\* set_source's two checks, lines 316-321.
Accepted(src) ==
    /\ src \in {"offline", "cam"}
    /\ (src = "cam" => cam_available)

\* do_GET /switch?src=x, lines 357-366, up to set_source's first
\* set_property (the video selector), lines 314-328; a rejected request
\* changes nothing and is answered 400.
GetSwitch(x) ==
    /\ sw_pc = "idle"
    /\ nswitch < MaxSwitches
    /\ nswitch' = nswitch + 1
    /\ IF Accepted(Lower(x))
       THEN /\ which' = Lower(x)
            /\ vsel' = Lower(x)
            /\ sw_pc' = "video"
       ELSE UNCHANGED <<which, vsel, sw_pc>>
    /\ UNCHANGED <<asel, current_source, cam_available, current_mode, nmode,
                   switched, notified, frames, scene_replies, sup_pc, target,
                   switcher_process, alive, spawns, signals, crashed, poll>>
    /\ UNCHANGED <<dvars, svars, cvars>>

\* The second set_property: the audio selector, lines 326 and 329.
SetAudio ==
    /\ sw_pc = "video"
    /\ asel' = which
    /\ sw_pc' = "audio"
    /\ UNCHANGED <<which, vsel, current_source, cam_available, current_mode,
                   nswitch, nmode, switched, notified, frames, scene_replies,
                   sup_pc, target, switcher_process, alive, spawns, signals,
                   crashed, poll>>
    /\ UNCHANGED <<dvars, svars, cvars>>

\* `self.current_source = which`, lines 331-333, and the 200 response.
SetDone ==
    /\ sw_pc = "audio"
    /\ current_source' = which
    /\ switched' = switched + 1
    /\ which' = "none"
    /\ sw_pc' = "idle"
    /\ UNCHANGED <<vsel, asel, cam_available, current_mode, nswitch, nmode,
                   notified, frames, scene_replies, sup_pc, target,
                   switcher_process, alive, spawns, signals, crashed, poll>>
    /\ UNCHANGED <<dvars, svars, cvars>>

\* do_GET /scene, lines 368-378, served by the same one-thread HTTPServer.
GetScene ==
    /\ sw_pc = "idle"
    /\ scene_replies' = scene_replies \cup
         {[scene |-> IF current_source = "none" THEN "offline"
                     ELSE current_source,
           v |-> vsel, a |-> asel]}
    /\ UNCHANGED <<sw_pc, which, vsel, asel, current_source, cam_available,
                   current_mode, nswitch, nmode, switched, notified, frames,
                   sup_pc, target, switcher_process, alive, spawns, signals,
                   crashed, poll>>
    /\ UNCHANGED <<dvars, svars, cvars>>

\* A streaming thread of the pipeline takes a buffer through both
\* selectors; it runs beside the HTTP thread.
PipelineFrame ==
    /\ sw_pc # "new"
    /\ frames' = frames \cup {[v |-> vsel, a |-> asel, src |-> current_source]}
    /\ UNCHANGED <<sw_pc, which, vsel, asel, current_source, cam_available,
                   current_mode, nswitch, nmode, switched, notified,
                   scene_replies, sup_pc, target, switcher_process, alive,
                   spawns, signals, crashed, poll>>
    /\ UNCHANGED <<dvars, svars, cvars>>

\* ---- supervisor.py: main() and the FFmpeg child --------------------------

Mode(is_live) == IF is_live THEN "live" ELSE "offline"

\* subprocess.Popen in start_switcher_live / start_switcher_offline, lines
\* 189-201 and 228-240: it may raise, and then the function returns False
\* and switcher_process keeps its value.
Started(cfg, ok) == Append(spawns, [cfg |-> cfg, ok |-> ok])
NewChild == Len(spawns) + 1

\* `switcher_process and switcher_process.poll() is not None`, line 305.
Exited == switcher_process # 0 /\ switcher_process \notin alive

\* No child is running although one died by itself and none has been
\* started since.
Orphaned == crashed /\ alive = {}

\* The top of a loop iteration, lines 304-310: a child that has exited is
\* started again in the mode the supervisor is in.
SupCheck(ok) ==
    /\ sup_pc = "check"
    /\ IF Exited
       THEN /\ Len(spawns) < MaxSpawns
            /\ spawns' = Started(IF current_mode = "live" THEN "live"
                                 ELSE "offline", ok)
            /\ alive' = IF ok THEN alive \cup {NewChild} ELSE alive
            /\ switcher_process' = IF ok THEN NewChild ELSE switcher_process
            /\ crashed' = (crashed /\ ~ok)
       ELSE /\ ok
            /\ UNCHANGED <<spawns, alive, switcher_process, crashed>>
    /\ poll' = [orphaned |-> Orphaned, mark |-> Len(spawns)]
    /\ sup_pc' = "probe"
    /\ UNCHANGED <<sw_pc, which, vsel, asel, current_source, cam_available,
                   current_mode, nswitch, nmode, switched, notified, frames,
                   scene_replies, target, signals>>
    /\ UNCHANGED <<dvars, svars, cvars>>

\* check_live_stream and the decision, lines 288-296 and 312-330; a switch
\* begins with stop_switcher up to its wait, lines 144-156: nothing to
\* stop without a child, else SIGTERM.
SupProbe(is_live) ==
    /\ sup_pc = "probe"
    /\ IF current_mode # Mode(is_live)
       THEN /\ nmode < MaxModeChanges
            /\ nmode' = nmode + 1
            /\ target' = Mode(is_live)
            /\ sup_pc' = IF switcher_process = 0 THEN "pause" ELSE "term"
            /\ signals' = IF switcher_process \in alive
                          THEN [signals EXCEPT ![switcher_process] =
                                  Append(@, "TERM")]
                          ELSE signals
       ELSE /\ sup_pc' = "check"
            /\ UNCHANGED <<nmode, target, signals>>
    /\ UNCHANGED <<sw_pc, which, vsel, asel, current_source, cam_available,
                   current_mode, nswitch, switched, notified, frames,
                   scene_replies, switcher_process, alive, spawns, crashed,
                   poll>>
    /\ UNCHANGED <<dvars, svars, cvars>>

\* stop_switcher without its kill: the handle is dropped after the wait
\* whether the child has exited or not.
SupWaitNoKill ==
    /\ sup_pc = "term"
    /\ switcher_process' = 0
    /\ sup_pc' = "pause"
    /\ UNCHANGED <<sw_pc, which, vsel, asel, current_source, cam_available,
                   current_mode, nswitch, nmode, switched, notified, frames,
                   scene_replies, target, alive, spawns, signals, crashed,
                   poll>>
    /\ UNCHANGED <<dvars, svars, cvars>>

\* stop_switcher after wait(timeout=3), lines 156-163: a child that is
\* still running is killed and waited for.
SupWait ==
    /\ sup_pc = "term"
    /\ IF switcher_process \in alive
       THEN /\ signals' = [signals EXCEPT ![switcher_process] =
                             Append(@, "KILL")]
            /\ alive' = alive \ {switcher_process}
       ELSE UNCHANGED <<signals, alive>>
    /\ switcher_process' = 0
    /\ sup_pc' = "pause"
    /\ UNCHANGED <<sw_pc, which, vsel, asel, current_source, cam_available,
                   current_mode, nswitch, nmode, switched, notified, frames,
                   scene_replies, target, spawns, crashed, poll>>
    /\ UNCHANGED <<dvars, svars, cvars>>

\* switch_to_live / switch_to_offline after the pause, lines 245-256, and
\* main's `current_mode = ...` when the start worked, lines 291-296 and
\* 320-330.
SupStart(ok) ==
    /\ sup_pc = "pause"
    /\ Len(spawns) < MaxSpawns
    /\ spawns' = Started(target, ok)
    /\ alive' = IF ok THEN alive \cup {NewChild} ELSE alive
    /\ switcher_process' = IF ok THEN NewChild ELSE switcher_process
    /\ current_mode' = IF ok THEN target ELSE current_mode
    /\ switched' = IF ok THEN switched + 1 ELSE switched
    /\ crashed' = (crashed /\ ~ok)
    /\ target' = "none"
    /\ sup_pc' = "check"
    /\ UNCHANGED <<sw_pc, which, vsel, asel, current_source, cam_available,
                   nswitch, nmode, notified, frames, scene_replies, signals,
                   poll>>
    /\ UNCHANGED <<dvars, svars, cvars>>

\* The FFmpeg child exits: by itself, or on the SIGTERM it was sent.
ChildExit(p) ==
    /\ p \in alive
    /\ alive' = alive \ {p}
    /\ crashed' = (crashed \/ ~(sup_pc = "term" /\ p = switcher_process))
    /\ UNCHANGED <<sw_pc, which, vsel, asel, current_source, cam_available,
                   current_mode, nswitch, nmode, switched, notified, frames,
                   scene_replies, sup_pc, target, switcher_process, spawns,
                   signals, poll>>
    /\ UNCHANGED <<dvars, svars, cvars>>

SupNext ==
    \/ \E ok \in BOOLEAN : SupCheck(ok)
    \/ \E is_live \in BOOLEAN : SupProbe(is_live)
    \/ SupWait
    \/ \E ok \in BOOLEAN : SupStart(ok)
    \/ \E p \in 1..MaxSpawns : ChildExit(p)

WNext ==
    \/ \E cam \in BOOLEAN : SwitcherInit(cam)
    \/ \E x \in SwitchInputs : GetSwitch(x)
    \/ SetAudio
    \/ SetDone
    \/ GetScene
    \/ PipelineFrame

SwitcherSpec == Init /\ [][WNext]_vars
SupervisorSpec == Init /\ [][SupNext]_vars

\* ======================================================================
\*  Service controller (container_controller.py): container operations
\* ======================================================================

\* An error text is a sequence of fragments joined by ": ". The fragments
\* are the phrases _is_recreation_error looks for, three of them as the
\* runtime capitalises them, and three that belong to no pattern.
Fragments ==
    {"network", "not found", "failed to set up container networking",
     "error response from daemon", "error mounting",
     "failed to create task for container", "error during container init",
     "not a directory", "mount",
     "are you trying to mount a directory onto a file",
     "oci runtime create failed", "unable to start container process",
     "Network", "Error response from daemon", "OCI runtime create failed",
     "permission denied", "no such service", "found"}

Texts == UNION {[1..n -> Fragments] : n \in 0..MaxFragments}

\* str.lower(), line 451.
lower(f) ==
    CASE f = "Network" -> "network"
      [] f = "Error response from daemon" -> "error response from daemon"
      [] f = "OCI runtime create failed" -> "oci runtime create failed"
      [] OTHER -> f

\* phrase in f, for a fragment f in lower case: the substring test of
\* lines 456 and 468 on the fragments above. No phrase holds ": ", so no
\* phrase spans two fragments.
Inside(phrase, f) ==
    \/ phrase = f
    \/ phrase = "network" /\ f = "failed to set up container networking"
    \/ phrase = "mount" /\ f \in {"error mounting",
                                  "are you trying to mount a directory onto a file"}
    \/ phrase = "found" /\ f = "not found"

\* phrase in error_lower
InText(phrase, error_text) ==
    \E i \in 1..Len(error_text) : Inside(phrase, lower(error_text[i]))

\* lines 453-457
network_patterns ==
    {{"network", "not found"},
     {"failed to set up container networking"},
     {"error response from daemon", "network"}}

\* lines 460-468
mount_patterns ==
    {{"error mounting"},
     {"failed to create task for container"},
     {"error during container init"},
     {"not a directory", "mount"},
     {"are you trying to mount a directory onto a file"},
     {"oci runtime create failed"},
     {"unable to start container process"}}

\* _is_recreation_error(), lines 434-472
_is_recreation_error(error_text) ==
    /\ error_text # NoText
    /\ \E pattern \in network_patterns \cup mount_patterns :
          \A phrase \in pattern : InText(phrase, error_text)

Kinds == {"start", "stop", "restart", "create-and-start"}

\* The "status" of the dictionary each operation returns.
Ack(kind) ==
    CASE kind = "start" -> "starting"
      [] kind = "stop" -> "stopping"
      [] kind = "restart" -> "restarting"
      [] kind = "create-and-start" -> "creating"

\* Where the thread of an operation begins: _create_and_start_container_sync
\* looks the service up first, the others ask the runtime for the container.
FirstStep(kind) == IF kind = "create-and-start" THEN "create" ELSE "get"

Resting == op.pc \in {"none", "done"}

\* do_POST, lines 1533-1551, and start_container / stop_container /
\* restart_container / create_and_start_container up to their return:
\* the thread is started and the dictionary is built.
Request(kind, name) ==
    /\ req.pc = "idle"
    /\ Resting
    /\ req' = [pc |-> "called",
               result |-> [code |-> 202, status |-> Ack(kind), container |-> name]]
    /\ resp' = NoResp
    /\ op' = [NoOp EXCEPT !.pc = FirstStep(kind), !.kind = kind, !.name = name]
    /\ cmds' = << >>
    /\ early' = FALSE
    /\ nreq' = nreq + 1
    /\ UNCHANGED <<ctr, listing, evaluated>>
    /\ UNCHANGED <<dvars, svars, wvars>>

\* do_POST, lines 1552-1555: an action that is none of the four.
UnknownAction(name) ==
    /\ req.pc = "idle"
    /\ Resting
    /\ resp' = [code |-> 404, status |-> "error", container |-> "none"]
    /\ nreq' = nreq + 1
    /\ UNCHANGED <<req, op, cmds, ctr, early, listing, evaluated>>
    /\ UNCHANGED <<dvars, svars, wvars>>

\* The response of a handler that joins the thread before it answers, and
\* reports a failed runtime call.
RespondWhenDone ==
    /\ req.pc = "called"
    /\ Resting
    /\ resp' = IF op.got = "api_error" \/ op.err # NoText
               THEN [req.result EXCEPT !.code = 500, !.status = "error"]
               ELSE req.result
    /\ req' = [pc |-> "idle", result |-> NoResp]
    /\ early' = (cmds # << >>)
    /\ UNCHANGED <<op, cmds, ctr, nreq, listing, evaluated>>
    /\ UNCHANGED <<dvars, svars, wvars>>

\* send_json(result, 202), lines 1454-1464
Respond ==
    /\ req.pc = "called"
    /\ resp' = req.result
    /\ req' = [pc |-> "idle", result |-> NoResp]
    /\ early' = (cmds # << >>)
    /\ UNCHANGED <<op, cmds, ctr, nreq, listing, evaluated>>
    /\ UNCHANGED <<dvars, svars, wvars>>

\* self.client.containers.get(container_name) of _start_container_sync
\* (lines 527-537), _stop_container_sync (lines 614-624) and
\* _restart_container_sync (lines 687-693); o = "api_error" is the
\* exception the handlers at the end of each catch.
GetContainer(o) ==
    /\ op.pc = "get"
    /\ cmds' = Append(cmds, "get")
    /\ op' = [op EXCEPT !.got = o, !.pc =
          IF o = "api_error" THEN "done"
          ELSE IF ctr[op.name] = "absent"
               THEN IF op.kind = "start" THEN "create" ELSE "done"
          ELSE IF op.kind = "start" /\ ctr[op.name] = "running" THEN "done"
          ELSE IF op.kind = "stop" /\ ctr[op.name] # "running" THEN "done"
          ELSE IF op.name \notin Declared THEN "done"
          ELSE "run"]
    /\ UNCHANGED <<req, resp, ctr, nreq, early, listing, evaluated>>
    /\ UNCHANGED <<dvars, svars, wvars>>

\* The compose command of the operation.
Command(kind) ==
    CASE kind = "start" -> "start"
      [] kind = "stop" -> "stop"
      [] kind = "restart" -> "restart"

\* subprocess.run of docker compose start / stop / restart and what
\* follows it: lines 555-590, 638-665 and 706-734. o is "ok", "fail"
\* (a return code other than 0, with error_text on stderr) or "timeout".
RunCompose(o, error_text) ==
    /\ op.pc = "run"
    /\ o = "fail" \/ error_text = NoText
    /\ cmds' = Append(cmds, Command(op.kind))
    /\ ctr' = IF o = "ok"
              THEN [ctr EXCEPT ![op.name] =
                       IF op.kind = "stop" THEN "exited" ELSE "running"]
              ELSE ctr
    /\ op' = [op EXCEPT
                !.err = error_text,
                !.pc = IF /\ op.kind = "start"
                          /\ o = "fail"
                          /\ _is_recreation_error(error_text)
                       THEN "remove" ELSE "done"]
    /\ UNCHANGED <<req, resp, nreq, early, listing, evaluated>>
    /\ UNCHANGED <<dvars, svars, wvars>>

\* The recreation that goes on to create whatever the removal returned.
RemoveAndCreate(o) ==
    /\ op.pc = "remove"
    /\ cmds' = Append(cmds, "rm")
    /\ ctr' = IF o = "ok" THEN [ctr EXCEPT ![op.name] = "absent"] ELSE ctr
    /\ op' = [op EXCEPT !.removed = IF o = "ok" THEN "ok" ELSE "failed",
                        !.pc = "create"]
    /\ UNCHANGED <<req, resp, nreq, early, listing, evaluated>>
    /\ UNCHANGED <<dvars, svars, wvars>>

\* _remove_container_sync(), lines 474-519, called at line 573; line 575
\* is reached only when it returned True.
Remove(o) ==
    /\ op.pc = "remove"
    /\ cmds' = Append(cmds, "rm")
    /\ ctr' = IF o = "ok" THEN [ctr EXCEPT ![op.name] = "absent"] ELSE ctr
    /\ op' = [op EXCEPT !.removed = IF o = "ok" THEN "ok" ELSE "failed",
                        !.pc = IF o = "ok" THEN "create" ELSE "done"]
    /\ UNCHANGED <<req, resp, nreq, early, listing, evaluated>>
    /\ UNCHANGED <<dvars, svars, wvars>>

\* _create_and_start_container_sync(), lines 891-918: the lookup in the
\* compose file and the container it finds at the runtime.
CreateGet(o) ==
    /\ op.pc = "create"
    /\ o = "ok" \/ op.name \in Declared
    /\ cmds' = IF op.name \in Declared THEN Append(cmds, "get") ELSE cmds
    /\ op' = [op EXCEPT !.got = IF op.name \in Declared THEN o ELSE op.got,
                        !.pc =
          IF op.name \notin Declared \/ o = "api_error" THEN "done"
          ELSE IF ctr[op.name] = "running" THEN "done"
          ELSE IF ctr[op.name] = "exited" THEN "cstart"
          ELSE "up"]
    /\ UNCHANGED <<req, resp, ctr, nreq, early, listing, evaluated>>
    /\ UNCHANGED <<dvars, svars, wvars>>

\* container.start(), line 914
ContainerStart(o) ==
    /\ op.pc = "cstart"
    /\ cmds' = Append(cmds, "cstart")
    /\ ctr' = IF o = "ok" THEN [ctr EXCEPT ![op.name] = "running"] ELSE ctr
    /\ op' = [op EXCEPT !.pc = "done"]
    /\ UNCHANGED <<req, resp, nreq, early, listing, evaluated>>
    /\ UNCHANGED <<dvars, svars, wvars>>

\* docker compose up -d, lines 923-980; whatever it returns, the
\* operation ends.
ComposeUp(o) ==
    /\ op.pc = "up"
    /\ cmds' = Append(cmds, "up")
    /\ ctr' = IF o = "ok" THEN [ctr EXCEPT ![op.name] = "running"] ELSE ctr
    /\ op' = [op EXCEPT !.pc = "done"]
    /\ UNCHANGED <<req, resp, nreq, early, listing, evaluated>>
    /\ UNCHANGED <<dvars, svars, wvars>>

\* The environment: a container of the project stops, is removed or is
\* started by other means while no operation is in progress.
ContainerChange(name, st) ==
    /\ Resting
    /\ req.pc = "idle"
    /\ ctr[name] # st
    /\ ctr' = [ctr EXCEPT ![name] = st]
    /\ UNCHANGED <<req, resp, op, cmds, nreq, early, listing, evaluated>>
    /\ UNCHANGED <<dvars, svars, wvars>>

CNext ==
    \/ \E kind \in Kinds, name \in Names :
          nreq < MaxRequests /\ Request(kind, name)
    \/ \E name \in Names : nreq < MaxRequests /\ UnknownAction(name)
    \/ Respond
    \/ \E o \in {"ok", "api_error"} : GetContainer(o)
    \/ \E o \in {"ok", "fail", "timeout"}, error_text \in Texts :
          RunCompose(o, error_text)
    \/ \E o \in {"ok", "fail", "timeout"} : Remove(o)
    \/ \E o \in {"ok", "api_error"} : CreateGet(o)
    \/ \E o \in {"ok", "api_error"} : ContainerStart(o)
    \/ \E o \in {"ok", "fail", "timeout"} : ComposeUp(o)
    \/ \E name \in Names, st \in {"absent", "exited", "running"} :
          nreq < MaxRequests /\ ContainerChange(name, st)

ControlSpec == Init /\ [][CNext]_vars

\* ----------------------------------------------------- list_containers

\* The services a compose file can declare, by short name, and the
\* container names ComposeParser._parse (lines 261-269) can give each: the
\* project prefix and the service name, or a container_name of its own.
ShortNames == {"a", "b"}

FullNames(short_name) ==
    IF short_name = "a" THEN {"relayer-a", "custom-a"}
    ELSE {"relayer-b", "custom-b"}

ContainerNames == UNION {FullNames(s) : s \in ShortNames}

\* compose_parser.get_services(): the declared services in the order of
\* the file, each short name once.
ComposeFiles ==
    {c \in UNION {[1..n -> [name : ShortNames, full_name : ContainerNames]] :
                     n \in 0..Cardinality(ShortNames)} :
        /\ \A i \in 1..Len(c) : c[i].full_name \in FullNames(c[i].name)
        /\ \A i, j \in 1..Len(c) : i # j => c[i].name # c[j].name}

\* client.containers.list(all=True): the status of the container of each
\* name, "absent" when there is none.
ContainerLists == [ContainerNames -> {"absent", "running", "exited"}]

\* line 795: the dictionary keeps the last service of a full name.
full_name_to_short(compose_services) ==
    [n \in {compose_services[i].full_name : i \in 1..Len(compose_services)} |->
        compose_services[
            CHOOSE i \in 1..Len(compose_services) :
                /\ compose_services[i].full_name = n
                /\ \A j \in (i + 1)..Len(compose_services) :
                      compose_services[j].full_name # n].name]

\* lines 826-846
containers_by_name(compose_services, all_containers) ==
    LET short == full_name_to_short(compose_services)
        found == {n \in DOMAIN short : all_containers[n] # "absent"}
    IN  [s \in {short[n] : n \in found} |->
            LET n == CHOOSE n \in found : short[n] = s
            IN  [name |-> s, full_name |-> n, status |-> all_containers[n],
                 running |-> all_containers[n] = "running", created |-> TRUE]]

\* A merge that lists the containers found and leaves out the services
\* without one.
merged_found(compose_services, by_name) ==
    SelectSeq([i \in 1..Len(compose_services) |->
                  IF compose_services[i].name \in DOMAIN by_name
                  THEN by_name[compose_services[i].name]
                  ELSE [name |-> "none", full_name |-> "none",
                        status |-> "none", running |-> FALSE,
                        created |-> FALSE]],
              LAMBDA e : e.created)

\* lines 852-872
merged_containers(compose_services, by_name) ==
    [i \in 1..Len(compose_services) |->
        IF compose_services[i].name \in DOMAIN by_name
        THEN by_name[compose_services[i].name]
        ELSE [name |-> compose_services[i].name,
              full_name |-> compose_services[i].full_name,
              status |-> "not-created", running |-> FALSE, created |-> FALSE]]

\* lines 809-822
fallback_containers(compose_services) ==
    [i \in 1..Len(compose_services) |->
        [name |-> compose_services[i].name,
         full_name |-> compose_services[i].full_name,
         status |-> "unknown", running |-> FALSE, created |-> FALSE]]

\* What containers.list can do: answer, raise a DockerException (an
\* APIError of the daemon), or raise what the HTTP client raises when the
\* daemon does not answer in 10 s or cannot be reached.
RuntimeAnswers == {"ok", "api_error", "timeout", "connection_error"}

\* except docker.errors.DockerException, line 803
IsDockerException(o) == o = "api_error"

\* ContainerController.list_containers(), lines 785-889
ListContainers(o, compose_services, all_containers) ==
    /\ listing' =
         [made |-> TRUE, o |-> o, compose_services |-> compose_services,
          all_containers |-> all_containers,
          raised |-> (o # "ok" /\ ~IsDockerException(o)),
          warning |-> IsDockerException(o),
          containers |->
             IF o = "ok"
             THEN merged_containers(compose_services,
                     containers_by_name(compose_services, all_containers))
             ELSE IF IsDockerException(o)
                  THEN fallback_containers(compose_services)
                  ELSE << >>]
    /\ UNCHANGED <<req, resp, op, cmds, ctr, nreq, early, evaluated>>
    /\ UNCHANGED <<dvars, svars, wvars>>

\* One call, with every answer of the runtime, compose file and container
\* list of the sets above.
ListNext ==
    \E o \in RuntimeAnswers, compose_services \in ComposeFiles,
       all_containers \in ContainerLists :
          ~listing.made /\ ListContainers(o, compose_services, all_containers)

ListSpec == Init /\ [][ListNext]_vars

\* ======================================================================
\*  Functions without state, applied once to an input of a bounded set
\* ======================================================================

\* parse_stream_stats gives any sample; the process is started with any
\* threshold.
HealthInputs ==
    [exists : BOOLEAN, publishing : BOOLEAN, bw_video : 0..MaxBw]

\* is_cam_alive_and_healthy(stats), with MIN_BITRATE_KBPS = min_bitrate_kbps
CheckHealth(s, min_bitrate_kbps) ==
    /\ evaluated' = [fn |-> "is_cam_alive_and_healthy", stats |-> s,
                     min |-> min_bitrate_kbps,
                     result |-> healthy_with(s, min_bitrate_kbps)]
    /\ UNCHANGED <<req, resp, op, cmds, ctr, nreq, early, listing>>
    /\ UNCHANGED <<dvars, svars, wvars>>

HealthNext ==
    \E s \in HealthInputs, min_bitrate_kbps \in 0..MaxKbps :
        evaluated.fn = "none" /\ CheckHealth(s, min_bitrate_kbps)

HealthSpec == Init /\ [][HealthNext]_vars

\* _format_time_delta(delta), lines 409-423, on total_seconds =
\* int(delta.total_seconds()): the number and the word after it.
_format_time_delta(total_seconds) ==
    IF total_seconds < 60
    THEN [value |-> total_seconds, unit |-> "seconds"]
    ELSE IF total_seconds < 3600
    THEN LET minutes == total_seconds \div 60
         IN  [value |-> minutes,
              unit |-> IF minutes # 1 THEN "minutes" ELSE "minute"]
    ELSE IF total_seconds < 86400
    THEN LET hours == total_seconds \div 3600
         IN  [value |-> hours,
              unit |-> IF hours # 1 THEN "hours" ELSE "hour"]
    ELSE LET days == total_seconds \div 86400
         IN  [value |-> days,
              unit |-> IF days # 1 THEN "days" ELSE "day"]

\* Durations since StartedAt / FinishedAt: the short ones and those around
\* a change of unit or of number.
Durations ==
    (0..MaxSeconds) \cup
    {3599, 3600, 3601, 7199, 7200, 86399, 86400, 86401, 172799, 172800}

FormatDelta(total_seconds) ==
    /\ evaluated' = [fn |-> "_format_time_delta",
                     total_seconds |-> total_seconds,
                     result |-> _format_time_delta(total_seconds)]
    /\ UNCHANGED <<req, resp, op, cmds, ctr, nreq, early, listing>>
    /\ UNCHANGED <<dvars, svars, wvars>>

DeltaNext ==
    \E total_seconds \in Durations :
        evaluated.fn = "none" /\ FormatDelta(total_seconds)

DeltaSpec == Init /\ [][DeltaNext]_vars

\* ======================================================================
\*  Fan-out server: properties
\* ======================================================================

RECURSIVE Flat(_)
Flat(msgs) ==
    IF msgs = << >> THEN << >> ELSE Head(msgs).logs \o Flat(Tail(msgs))

IsLogMsg(m) == m.type \in {"log_snapshot", "new_logs"}

\* The log lines a client was sent, in the order it was sent them.
LinesOf(c) == Flat(SelectSeq(rx[c], IsLogMsg))

NoDup(s) == \A i, j \in 1..Len(s) : i # j => s[i] # s[j]

\* C7: while the log only grows, the lines a subscriber was sent in its
\* log_snapshot and in the new_logs messages after it contain no log line
\* twice.
C7_NoLineTwice ==
    \A c \in Clients : ~log_reset => NoDup(LinesOf(c))

HasStatusChange(c, b) ==
    \E k \in 1..Len(rx[c]) :
        /\ rx[c][k].type = "status_change"
        /\ rx[c][k].seq = b.seq
        /\ rx[c][k].changes = b.changes

\* C8: once the monitor's broadcast of a lifecycle change has ended, every
\* client that was connected when the change happened and is connected
\* still has been sent a status_change whose previousStatus and
\* currentStatus are the states before and after that change.
C8_ChangeReachesThoseWhoStay ==
    \A c \in mon_last.across : c \in Connected => HasStatusChange(c, mon_last)

HasBroadcast(c, i) ==
    \E k \in 1..Len(rx[c]) :
        /\ rx[c][k].type = bcasts[i].type
        /\ rx[c][k].id = i

\* C9: once the broadcast scheduled by a scene or privacy mutation has
\* ended, every client that was connected at the mutation and is connected
\* still has been sent its scene_change or privacy_change message.
C9_MutationReachesEverySubscriber ==
    \A i \in 1..Len(bcasts) :
        bcasts[i].st \in {"done", "failed"} =>
            \A c \in bcasts[i].who : c \in Connected => HasBroadcast(c, i)

IsInitialState(m) == m.type = "initial_state"

\* C10: a connection whose handler has gone past send_initial_state and
\* whose socket is open has been sent exactly one initial_state, with a
\* status for every service and the scene and privacy values.
C10_ExactlyOneInitialState ==
    \A c \in Clients :
        (hpc[c] \in {"loop", "snap_send"} /\ conn[c] = "open") =>
            /\ Len(SelectSeq(rx[c], IsInitialState)) = 1
            /\ DOMAIN SelectSeq(rx[c], IsInitialState)[1].containers = Services

\* C11: once a status broadcast has ended, every client that was connected
\* when it started and is connected still has been sent its status_change,
\* whatever happened to the other clients meanwhile.
C11_BroadcastReachesTheOthers ==
    \A c \in mon_last.who : c \in Connected => HasStatusChange(c, mon_last)

\* C12: when a pass of the log stream ends, every subscriber to which a
\* send failed during the pass is out of the connected-client set and out
\* of every service's log-subscription set.
C12_FailedSubscriberIsRemoved ==
    [][ (tick.pc = "send" /\ tick'.pc = "sleep") =>
          \A c \in TickDisc :
              /\ c \notin clients'
              /\ \A s \in Services : c \notin log_subscribers'[s] ]_vars

\* C14: no observer callback ever runs while the mutex of the scene and
\* privacy cell is held.
C14_NoCallbackUnderLock == ~callback_locked

\* The `enabled` value a restart would load from the file, lines 69-81.
Persisted == privacy_file = "true"

\* C16: once a privacy request has been served, the persisted enabled
\* value equals the in-memory privacy_enabled.
C16_PersistedIsInMemory == http = "idle" => Persisted = privacy

\* C18: in every state the current scene is LIVE or FALLBACK, and every
\* initial_state message reports one of the two.
C18_AlwaysInOneScene ==
    /\ scene \in {"LIVE", "FALLBACK"}
    /\ \A c \in Clients : \A k \in 1..Len(rx[c]) :
          rx[c][k].type = "initial_state" =>
              rx[c][k].current_scene \in {"LIVE", "FALLBACK"}

\* C15: while a coroutine is inside a call to the container runtime, the
\* event loop can still serve the others: a handler whose initial_state or
\* snapshot send is pending can finish it, a new connection can be
\* accepted, and a log tick in the middle of its sends can go on.
C15_LoopServesDuringRuntimeCall ==
    blocked # Unblocked =>
        /\ \A c \in Clients :
              (hpc[c] = "init_send" /\ blocked.client # c)
                  => ENABLED InitSendDone(c)
        /\ \A c \in Clients :
              (hpc[c] = "snap_send" /\ blocked.client # c)
                  => ENABLED SnapSendDone(c)
        /\ (tick.pc = "send" /\ tick.todo = {}) => ENABLED TickFinish

\* The privacy_change messages client c has received.
PrivacyChanges(c) ==
    Cardinality({k \in 1..Len(rx[c]) : rx[c][k].type = "privacy_change"})

\* enable, disable, enable have been served and their broadcasts have ended.
ToggledThrice ==
    /\ posts = 3
    /\ http = "idle"
    /\ Quiet

\* The clients connected from before the first toggle until now.
Throughout == IF Len(bcasts) = 3 THEN bcasts[1].who \cap Connected ELSE {}

\* C17: after enable, disable, enable the persisted flag is true and a
\* subscriber connected throughout has received exactly three
\* privacy_change events.
C17_ThreeTogglesPersistAndReach ==
    ToggledThrice =>
        /\ Persisted
        /\ \A c \in Throughout : PrivacyChanges(c) = 3

\* The scene_change/privacy_change broadcasts client c has received, by
\* the number of the mutation each reports.
BroadcastIds(c) ==
    LET got == SelectSeq(rx[c], LAMBDA msg :
                   msg.type \in {"scene_change", "privacy_change"})
    IN [k \in 1..Len(got) |-> got[k].id]

\* C13: the scene_change/privacy_change broadcasts reach every subscriber
\* in the order in which the mutations were applied.
C13_BroadcastsArriveInOrder ==
    \A c \in Clients :
        \A k \in 1..(Len(BroadcastIds(c)) - 1) :
            BroadcastIds(c)[k] < BroadcastIds(c)[k + 1]

\* ======================================================================
\* Properties of the switcher and the supervisor
\* ======================================================================

\* C19: whenever the pipeline takes a buffer and whenever GET /scene
\* answers, the video selector, the audio selector and current_source
\* name the same source.
C19_SwitchIsAtomic ==
    /\ \A f \in frames : f.v = f.a /\ f.a = f.src
    /\ \A r \in scene_replies : r.v = r.a /\ r.a = r.scene

\* C20: once a switch has succeeded and its request is over, a POST
\* /scene/<name> to the fan-out server has been issued for it.
C20_SwitchIsAnnounced ==
    sw_pc \in {"new", "idle"} => Len(notified) = switched

\* C21: at most one FFmpeg child is alive, a child is started only when
\* none is alive, and a child is sent SIGKILL only after SIGTERM.
C21_OneChildAtATime ==
    /\ Cardinality(alive) <= 1
    /\ \A p \in 1..MaxSpawns :
          signals[p] \in {<< >>, <<"TERM">>, <<"TERM", "KILL">>}
    /\ \A p \in alive : p = switcher_process
    /\ sup_pc = "pause" => alive = {}

\* A scene switch has replaced a running child that did not stop on SIGTERM.
C21_Witness ==
    /\ \E p \in 1..MaxSpawns : signals[p] = <<"TERM", "KILL">>
    /\ alive # {}
    /\ current_mode = "live"

\* C22: a poll that begins with the child gone after it died by itself,
\* and that finds no reason to change the mode, has tried to start a child
\* for the mode the supervisor is in, however many attempts failed before.
C22_DeadChildIsRespawned ==
    [][ (sup_pc = "probe" /\ sup_pc' = "check" /\ poll.orphaned) =>
          /\ Len(spawns) > poll.mark
          /\ spawns[poll.mark + 1].cfg = current_mode ]_vars

\* ======================================================================
\*  Service controller: properties
\* ======================================================================

\* The calls of the thread that change something at the runtime.
Changes(c) == c # "get"

Issued == SelectSeq(cmds, Changes)

\* The background start of a service ended after docker compose start ran.
StartRan ==
    /\ op.pc = "done"
    /\ op.kind = "start"
    /\ \E i \in 1..Len(cmds) : cmds[i] = "start"

\* The text, in lower case, holds every phrase of one of the phrase-sets.
RecreationClass(error_text) ==
    \E set \in {{"network", "not found"},
                {"failed to set up container networking"},
                {"error response from daemon", "network"},
                {"error mounting"},
                {"failed to create task for container"},
                {"error during container init"},
                {"not a directory", "mount"},
                {"are you trying to mount a directory onto a file"},
                {"oci runtime create failed"},
                {"unable to start container process"}} :
       \A phrase \in set : InText(phrase, error_text)

Acknowledged ==
    resp = [code |-> 202, status |-> Ack(op.kind), container |-> op.name]

\* C24 as stated: the acknowledgement of start, stop, restart and
\* create_and_start (202 with starting / stopping / restarting / creating)
\* is returned before the thread has called the runtime, for every name,
\* and is what the caller gets whatever the thread does.
C24_AckBeforeTheOperationRuns ==
    resp.code \notin {0, 404} => Acknowledged /\ ~early

\* C24, amended: the handler answers without waiting for the thread, which
\* may have called the runtime already: the response can be sent wherever
\* the thread is, and it is the 202 acknowledgement of the operation for
\* every name and every outcome of the thread.
C24_AckWhateverTheOperationDoes ==
    /\ req.pc = "called" => ENABLED Respond
    /\ resp.code \notin {0, 404} => Acknowledged

\* The start of a service failed with a recreation-class error and the
\* removal failed too; the caller was answered "starting" after the thread
\* had begun.
C24_Witness ==
    /\ op.pc = "done"
    /\ op.removed = "failed"
    /\ early
    /\ resp.status = "starting"
    /\ Acknowledged

\* The entries of the last list that carry the short name s.
EntriesOf(s) ==
    {i \in 1..Len(listing.containers) : listing.containers[i].name = s}

\* The short names the compose file of the last list declares.
DeclaredIn(compose_services) ==
    {compose_services[i].name : i \in 1..Len(compose_services)}

\* C25: a list the runtime answered has exactly one entry for every
\* declared service and no other entry; the entry is not-created exactly
\* when no container carries the service's container name, and carries that
\* container's status otherwise.
C25_OneEntryPerDeclaredService ==
    listing.made /\ listing.o = "ok" =>
        /\ \A s \in DeclaredIn(listing.compose_services) :
              Cardinality(EntriesOf(s)) = 1
        /\ Len(listing.containers) = Len(listing.compose_services)
        /\ \A i \in 1..Len(listing.compose_services) :
              LET svc == listing.compose_services[i]
                  e == listing.containers[CHOOSE k \in EntriesOf(svc.name) : TRUE]
                  st == listing.all_containers[svc.full_name]
              IN  /\ (e.status = "not-created") = (st = "absent")
                  /\ st # "absent" => e.status = st /\ e.full_name = svc.full_name

\* Two services declared, one without a container and one whose container
\* has exited, while a container no service declares is running.
C25_Witness ==
    /\ listing.made
    /\ listing.o = "ok"
    /\ Len(listing.compose_services) = 2
    /\ \E i, j \in 1..Len(listing.containers) :
          /\ listing.containers[i].status = "not-created"
          /\ listing.containers[j].status = "exited"
    /\ \E n \in ContainerNames :
          /\ listing.all_containers[n] = "running"
          /\ \A i \in 1..2 : listing.compose_services[i].full_name # n

\* C26: whatever goes wrong at the runtime during the list (timeout,
\* connection error, API error), list_containers does not raise and returns
\* every declared service as unknown, with the warning.
C26_RuntimeFailureDegrades ==
    listing.made /\ listing.o # "ok" =>
        /\ ~listing.raised
        /\ listing.warning
        /\ Len(listing.containers) = Len(listing.compose_services)
        /\ \A i \in 1..Len(listing.containers) :
              /\ listing.containers[i].status = "unknown"
              /\ listing.containers[i].name = listing.compose_services[i].name

\* A POST /scene/<x> or /privacy/<x> step that answered at once: nothing is
\* left to do under the lock.
Refused == posts' = posts + 1 /\ http' = "idle"

Untouched ==
    UNCHANGED <<scene, scene_ts, privacy, privacy_file, bcasts,
                callback_locked, lock, rx>>

\* C27 as stated: POST /scene/<x> with x other than live or fallback, and
\* POST /privacy/<x> with x other than enable or disable, is answered 400
\* and changes neither the scene, its timestamp, the privacy flag nor the
\* privacy file, and runs no callback and schedules no broadcast.
C27_InvalidArgumentIsRefused ==
    [][ /\ posts' = posts + 1
        /\ \/ answered'.route = "scene" /\ answered'.arg \notin {"live", "fallback"}
           \/ answered'.route = "privacy" /\ answered'.arg \notin {"enable", "disable"}
        => answered'.code = 400 /\ Untouched ]_vars

\* C27, amended: the names are compared without regard to letter case. A
\* non-empty x that is none of the route's names in any case is answered 400
\* and an empty x 404, and in both cases nothing changes: scene, timestamp,
\* privacy flag and privacy file stay, no callback runs and no broadcast is
\* scheduled.
C27_InvalidArgumentChangesNothing ==
    [][ /\ posts' = posts + 1
        /\ \/ answered'.route = "scene"
              /\ Upper(answered'.arg) \notin {"LIVE", "FALLBACK"}
           \/ answered'.route = "privacy"
              /\ Lower(answered'.arg) \notin {"enable", "disable"}
        => /\ answered'.code = IF answered'.arg = "" THEN 404 ELSE 400
           /\ Refused
           /\ Untouched ]_vars

\* POST /scene/bogus was answered 400 while a client was connected and the
\* scene was still unknown.
C27_Witness ==
    /\ answered = [route |-> "scene", arg |-> "bogus", code |-> 400,
                   changed |-> FALSE]
    /\ clients # {}
    /\ loop_set
    /\ scene = "unknown"
    /\ bcasts = << >>

\* ======================================================================
\*  Scene decider: the two timers
\* ======================================================================

\* The step is one iteration of the loop: a sample was taken at now'.
SampleTaken == d_pc = "loop" /\ clock' # clock

\* The iteration called the switch API for src, at the time of its sample.
Emits(src) ==
    /\ Len(emitted') = Len(emitted) + 1
    /\ SubSeq(emitted', 1, Len(emitted)) = emitted
    /\ emitted'[Len(emitted')].src = src
    /\ emitted'[Len(emitted')].at = now'
    /\ emitted'[Len(emitted')].from = active_src

\* C28: while the scene is LIVE, a sample emits SWITCH(FALLBACK) exactly
\* when it is unhealthy and its time is CAM_MISS_TIMEOUT or more after the
\* last healthy sample; every other sample, healthy or unhealthy, emits
\* nothing and leaves the scene LIVE, so an unhealthy run that ends before
\* the timeout produces no command.
C28_FallbackAtMissTimeout ==
    [][ (SampleTaken /\ active_src = "cam") =>
          IF ~run_healthy' /\ now' - last_seen_cam >= CAM_MISS_TIMEOUT
          THEN Emits("offline")
          ELSE emitted' = emitted /\ active_src' = "cam" ]_vars

\* The scene fell back at the sample taken exactly CAM_MISS_TIMEOUT after
\* the last healthy one, which came after the sample that made it LIVE.
C28_Witness ==
    /\ Len(emitted) >= 3
    /\ Last(emitted).src = "offline" /\ Last(emitted).from = "cam"
    /\ Last(emitted).at = now
    /\ now - last_seen_cam = CAM_MISS_TIMEOUT
    /\ emitted[Len(emitted) - 1].src = "cam"
    /\ now - emitted[Len(emitted) - 1].at > CAM_MISS_TIMEOUT

C30_StableSinceIffCandidate ==
    (cam_stable_since # NoTime) <=>
        (active_src = "offline" /\ probe # "none" /\ run_healthy)

\* The last sample asked for LIVE and the switch API refused.
PromotionFailed ==
    /\ emitted # << >>
    /\ Last(emitted).src = "cam"
    /\ Last(emitted).at = now
    /\ ~Last(emitted).ok

\* C30, amended: cam_stable_since is set exactly when the scene is not
\* LIVE, the current run of samples is healthy and the last sample did not
\* end in a SWITCH(LIVE) that failed; it is None whenever the scene is LIVE.
C30_StableSinceIffWaiting ==
    (cam_stable_since # NoTime) <=>
        /\ active_src # "cam"
        /\ probe # "none"
        /\ run_healthy
        /\ ~PromotionFailed

\* A SWITCH(LIVE) has just failed in a healthy run: the scene is FALLBACK
\* and cam_stable_since is None.
C30_Witness ==
    /\ active_src = "offline"
    /\ probe # "none" /\ run_healthy
    /\ PromotionFailed
    /\ cam_stable_since = NoTime

\* ======================================================================
\*  Functions without state: properties
\* ======================================================================

HealthChecked == evaluated.fn = "is_cam_alive_and_healthy"

LinesAfter(window, anchor) ==
    LET p == CHOOSE i \in 1..Len(window) : window[i] = anchor
    IN  [k \in 1..(Len(window) - p) |-> window[p + k]]

Delta(window, anchor) ==
    IF \E i \in 1..Len(window) : window[i] = anchor
    THEN LinesAfter(window, anchor)
    ELSE window

TickBegins == tick.pc = "sleep" /\ tick'.pc = "send"

Fetched(s) == get_logs(s, STREAM_TAIL).logs

\* C32: a log tick that sends for a service sends the lines of the fetched
\* window that come after the anchor, or the whole window when the anchor
\* is not in it; the payload is never empty, so an empty delta sends
\* nothing; and the anchor becomes the last line of the fetched window.
C32_TickSendsTheDelta ==
    [][TickBegins =>
         /\ tick'.new_logs = Delta(Fetched(tick'.svc), last_sent_logs[tick'.svc])
         /\ tick'.new_logs # << >>
         /\ last_sent_logs'[tick'.svc] = Last(Fetched(tick'.svc))
         /\ \A c \in Clients : rx'[c] = rx[c]]_vars

\* C32, the anchor is lost: a subscriber was sent new_logs ending with a
\* line that rotation took out of the log, and the tick now under way sends
\* the whole window.
C32_Witness ==
    /\ log_reset
    /\ tick.pc = "send"
    /\ tick.new_logs = log[tick.svc]
    /\ last_sent_logs[tick.svc] = Last(log[tick.svc])
    /\ \E c \in Clients : \E k \in 1..Len(rx[c]) :
          /\ rx[c][k].type = "new_logs"
          /\ \A i \in 1..Len(log[tick.svc]) :
                log[tick.svc][i] # Last(rx[c][k].logs)

\* ---- the decider after a refused switch ----------------------------------

\* The last command was SWITCH(src), issued while the scene was cur, and
\* the switch API refused it.
LastRefused(cur, src) ==
    /\ emitted # << >>
    /\ Last(emitted).src = src
    /\ Last(emitted).from = cur
    /\ ~Last(emitted).ok

\* Longest time from a refused SWITCH(LIVE) to the last healthy sample that
\* does not issue it again: the next sample opens a new stability window.
RetryDelay == CAM_BACK_STABILITY + POLL_SECS + MaxDelay - 1

\* C33: a call the switch API refuses leaves the active scene as it was and
\* a call it accepts makes the commanded scene the active one. After a
\* refused SWITCH(FALLBACK) every following unhealthy sample issues it
\* again, so with no healthy sample since, the refused command is that of
\* the latest sample. After a refused SWITCH(LIVE) the stability window is
\* opened again by the next healthy sample, so with no unhealthy sample
\* since, the command is issued again within RetryDelay.
C33_RefusedSwitchIsRetried ==
    /\ [][emitted' # emitted =>
            active_src' = IF Last(emitted').ok THEN Last(emitted').src
                          ELSE active_src]_vars
    /\ [](LastRefused("cam", "offline") /\ last_seen_cam < Last(emitted).at
            => Last(emitted).at = now /\ active_src = "cam")
    /\ [](LastRefused("offline", "cam") /\ last_unhealthy < Last(emitted).at
            => /\ now - Last(emitted).at <= RetryDelay
               /\ active_src = "offline"
               /\ cam_stable_since # NoTime <=> now > Last(emitted).at)

\* The retry went through: SWITCH(LIVE) was refused and, with healthy
\* samples only since, issued again RetryDelay + 1 later and accepted.
C33_Witness ==
    /\ Len(emitted) = 3
    /\ emitted[2].src = "cam" /\ ~emitted[2].ok
    /\ emitted[3].src = "cam" /\ emitted[3].ok
    /\ emitted[3].at = emitted[2].at + RetryDelay + 1
    /\ last_unhealthy < emitted[2].at
    /\ active_src = "cam"

\* ---- membership of the log subscriptions ---------------------------------

\* handle_log_subscription is about to register c for s.
Subscribing(c, s) == hpc[c] = "snap_send" /\ hreq[c].container = s

\* C34: a client becomes a member of a service's log subscribers only
\* through handle_log_subscription, so after unsubscribe_logs or
\* unregister_client it stays out until it subscribes again.
C34_OutUntilSubscribedAgain ==
    [][\A c \in Clients, s \in Services :
          (c \in log_subscribers'[s] /\ c \notin log_subscribers[s])
              => Subscribing(c, s)]_vars

\* C35: every log subscriber of every service is a connected client.
C35_SubscribersAreClients ==
    \A s \in Services : log_subscribers[s] \subseteq clients

\* A client was unregistered while the log tick was sending to the
\* subscribers it had found, the unregistered one among them, and another
\* client is subscribed still.
C35_Witness ==
    /\ tick.pc = "send"
    /\ \E c \in Clients :
          /\ hpc[c] = "done"
          /\ c \in tick.todo \cup {tick.cur}
          /\ c \notin log_subscribers[tick.svc]
    /\ log_subscribers[tick.svc] # {}

\* ---- the supervisor's child handle ---------------------------------------

\* C36: when a poll of the supervisor has ended with current_mode live or
\* offline, the supervisor holds a handle of a child, running or exited.
C36_ModeHasChildHandle ==
    (sup_pc = "check" /\ current_mode \in {"live", "offline"})
        => switcher_process # 0

\* ---- the multiplexer's view of privacy -----------------------------------

\* C37: the multiplexer receives the privacy notifications in the order in
\* which the toggles were applied, and once every notification thread has
\* ended the last one it received carries the value of privacy_enabled.
C37_NotificationsInOrder ==
    /\ \A i, j \in 1..Len(mux.got) : i < j => mux.got[i].id < mux.got[j].id
    /\ (mux.pending = {} /\ http = "idle" /\ mux.got # << >>)
          => Last(mux.got).enabled = privacy

\* ---- the state lock -------------------------------------------------------

\* The event loop has a broadcast whose get_state() has not returned.
LoopWaits(i) == i <= Len(bcasts) /\ bcasts[i].st = "queued"

\* C38: whoever holds the state lock can go on to release it, the lock is
\* released in the end, and the get_state() of every broadcast handed to
\* the event loop returns.
C38_LockIsReleased ==
    /\ [](lock # "free" => ENABLED HttpRelease)
    /\ (lock # "free") ~> (lock = "free")
    /\ \A i \in 1..MaxPosts : LoopWaits(i) ~> ~LoopWaits(i)

\* The event loop is in get_state() for a broadcast to its clients while
\* the HTTP thread holds the lock.
C38_Witness ==
    /\ lock = "http"
    /\ LoopWaits(1)
    /\ clients # {}

\* ---- set_scene with the scene that is current ----------------------------

\* do_POST hands scene S to set_scene.
SetScene(S) ==
    /\ posts' = posts + 1
    /\ answered'.route = "scene"
    /\ Upper(answered'.arg) = S

\* C39: set_scene(S) with S the current scene reports changed = false and
\* leaves the scene, its timestamp and the scheduled broadcasts alone and
\* runs no callback; with another scene it reports changed = true. The
\* timestamp changes only in a step that changes the scene.
C39_SameSceneIsNoOp ==
    [][ /\ \A S \in {"LIVE", "FALLBACK"} :
             SetScene(S) =>
               IF scene = S
               THEN /\ ~answered'.changed
                    /\ UNCHANGED <<scene, scene_ts, bcasts, callback_locked>>
               ELSE answered'.changed /\ scene' = S
        /\ scene_ts' # scene_ts => scene' # scene ]_vars

\* The scene was set, and then set again to what it was.
C39_Witness ==
    /\ posts >= 2
    /\ answered.route = "scene"
    /\ Upper(answered.arg) = scene
    /\ ~answered.changed
    /\ scene_ts = 1
    /\ Len(bcasts) = 1

\* The coarsest unit of which n seconds hold one at least (seconds below a
\* minute), as its singular and the seconds it has.
UnitOf(n) ==
    IF n >= 86400 THEN [noun |-> "day", secs |-> 86400]
    ELSE IF n >= 3600 THEN [noun |-> "hour", secs |-> 3600]
    ELSE IF n >= 60 THEN [noun |-> "minute", secs |-> 60]
    ELSE [noun |-> "second", secs |-> 1]

Plural(noun) ==
    CASE noun = "day" -> "days"
      [] noun = "hour" -> "hours"
      [] noun = "minute" -> "minutes"
      [] noun = "second" -> "seconds"

\* C40: a duration of n whole seconds is written with the coarsest unit
\* that holds at least once in it, the number is n divided by the unit and
\* rounded down, and the unit is in the singular exactly when the number
\* is 1.
C40_CoarsestUnitSingularForOne ==
    evaluated.fn = "_format_time_delta" =>
        LET n == evaluated.total_seconds
            u == UnitOf(n)
        IN  /\ evaluated.result.value = n \div u.secs
            /\ evaluated.result.unit =
                 IF n \div u.secs = 1 THEN u.noun ELSE Plural(u.noun)

====
